---- MODULE Spec2Model ----
\* cpufetch, Alpha / SPARC / PA-RISC backends: the topology reconstructor, the
\* cache builder, the frequency resolver, the performance estimator and the
\* string accessors of src/common/cpu.c, as state machines over the values the
\* operating system hands to them.
EXTENDS Integers, Sequences, FiniteSets, TLC

VARIABLES
  arch,            \* backend the binary was built for
  pc,              \* position inside get_cpu_info
  topo,            \* struct topology
  core_ids,        \* get_topology_info: core_ids[] as the pair loop reads it
  package_ids,     \* get_topology_info: package_ids[] as the pair loop reads it
  core_ids_ok,     \* return value of fill_core_ids_from_sys
  package_ids_ok,  \* return value of fill_package_ids_from_sys
  unique_pairs,    \* get_topology_info: local unique_pairs after the pair loop
  online,          \* what sysconf(_SC_NPROCESSORS_ONLN) returned
  core_reads,      \* what each cpu<i>/topology/core_id read yielded
  package_reads,   \* what each cpu<i>/topology/physical_package_id read yielded
  freq,            \* struct frequency
  max_file,        \* what get_max_freq_from_file(0) returned
  min_file,        \* what get_min_freq_from_file(0) returned
  hz_field,        \* the frequency field of /proc/cpuinfo, first lookup
  hz_field_plain,  \* Alpha: the second lookup, by the bare field name
  cach,            \* struct cache
  size_source,     \* per level: the files, cpuinfo line and sysfs value consulted
  size_parsed,     \* per level: the size the backend's getter returned
  cpu_name,        \* cpu->cpu_name (NoField when NULL)
  env,             \* the accuracy toggles and the two environment variables
  target_seconds,  \* measure_peak_performance_f32: local target_seconds
  iters,           \* the running kernel's iteration count
  measured,        \* what measure_peak_performance_f32 returned
  f32_clock,       \* measure_peak_performance_f32: its last gettimeofday call
  sample,          \* the running kernel's latest clock sample (t1 against t0)
  peak_performance,     \* cpu->peak_performance
  vis_ops_performance,  \* cpu->vis_ops_performance
  cache_size,      \* get_str_cache: argument cache_size
  num_caches,      \* get_str_cache: argument num_caches
  dual_socket,     \* get_str_topology: argument dual_socket
  string,          \* get_str_cache: the string returned
  cpuinfo,         \* /proc/cpuinfo: the name fields, by the key looked up
  uarch,           \* cpu->arch (struct uarch)
  read_log,        \* the id files read so far, in the order of the reads
  fill_i           \* fill_array_from_sys: the loop index i

topoVars == <<topo, core_ids, package_ids, core_ids_ok, package_ids_ok, unique_pairs,
              online, core_reads, package_reads>>

freqVars == <<freq, max_file, min_file, hz_field, hz_field_plain>>

cacheVars == <<cach, size_source, size_parsed>>

perfVars == <<cpu_name, env, target_seconds, iters, measured, f32_clock, sample,
              peak_performance, vis_ops_performance>>

strVars == <<cache_size, num_caches, dual_socket, string>>

uarchVars == <<cpuinfo, uarch>>

fillVars == <<read_log, fill_i>>

vars == <<arch, pc, topoVars, freqVars, cacheVars, perfVars, strVars, uarchVars, fillVars>>

-----------------------------------------------------------------------------
\* Bounds and program constants

\* largest number of online logical processors explored
MaxN == 3

\* UNKNOWN_DATA, the sentinel for "could not be determined"
UNKNOWN_DATA == -1

Archs == {"alpha", "sparc", "parisc"}

\* results of sysconf(_SC_NPROCESSORS_ONLN): -1 on failure, else the count
OnlineVals == {-1} \cup (1 .. MaxN)

\* values a topology/physical_package_id file (or an unwritten cell) may hold:
\* negative, inside [0, N) and at or above N for every N explored
PkgIdVals == -1 .. MaxN

\* values a topology/core_id file may hold
CoreIdVals == {-1, 0, 1}

\* a division that rounds up instead of truncating
CDivRoundUp(a, b) == (a + b - 1) \div b

\* C integer division (truncation toward zero)
CDiv(a, b) ==
  IF (a >= 0) = (b > 0) THEN (IF a >= 0 THEN a ELSE -a) \div (IF b >= 0 THEN b ELSE -b)
  ELSE -((IF a >= 0 THEN a ELSE -a) \div (IF b >= 0 THEN b ELSE -b))

-----------------------------------------------------------------------------
\* udev.c (sparc, parisc): reading the per-CPU id files

\* One read of cpu<i>/topology/<file>: ok = FALSE when read_file returns NULL
\* or strtol sets errno; then the cell keeps the content it has in ids.
ReadOk(v) == [ok |-> TRUE, val |-> v]

ReadFail == [ok |-> FALSE, val |-> 0]

RECURSIVE fill_array_loop(_, _, _, _)
fill_array_loop(ids, total_cores, reads, i) ==
  IF i >= total_cores THEN [status |-> TRUE, ids |-> ids, nreads |-> i]
  ELSE IF ~reads[i].ok THEN [status |-> FALSE, ids |-> ids, nreads |-> i + 1]
  ELSE fill_array_loop([ids EXCEPT ![i] = reads[i].val], total_cores, reads, i + 1)

\* ids: the freshly allocated (uninitialised) array; reads: what each file yields
fill_array_from_sys(ids, total_cores, reads) ==
  fill_array_loop(ids, total_cores, reads, 0)

\* a loop pass that goes on to the next file after a failed read
fill_array_pass_past_failure(ids, total_cores, reads, i) ==
  IF i >= total_cores THEN [returned |-> TRUE, status |-> TRUE, ids |-> ids, i |-> i]
  ELSE [returned |-> FALSE, status |-> FALSE,
        ids |-> IF reads[i].ok THEN [ids EXCEPT ![i] = reads[i].val] ELSE ids,
        i |-> i + 1]

\* one pass of the for loop of fill_array_from_sys at index i: i = total_cores
\* ends the loop with true, a failed read returns false, a read that succeeds
\* writes ids[i] and moves on to i + 1
fill_array_pass(ids, total_cores, reads, i) ==
  IF i >= total_cores THEN [returned |-> TRUE, status |-> TRUE, ids |-> ids, i |-> i]
  ELSE IF ~reads[i].ok THEN [returned |-> TRUE, status |-> FALSE, ids |-> ids, i |-> i]
  ELSE [returned |-> FALSE, status |-> FALSE,
        ids |-> [ids EXCEPT ![i] = reads[i].val], i |-> i + 1]

fill_core_ids_from_sys(core_mem, total_cores, reads) ==
  fill_array_from_sys(core_mem, total_cores, reads)

\* a range check that lets an id equal to total_cores through
package_ids_valid_upto(ids, total_cores, i) ==
  \A k \in i .. total_cores - 1 : ids[k] >= 0 /\ ids[k] <= total_cores

RECURSIVE package_ids_valid(_, _, _)
package_ids_valid(ids, total_cores, i) ==
  IF i >= total_cores THEN TRUE
  ELSE IF ids[i] = -1 THEN FALSE
  ELSE IF ids[i] >= total_cores \/ ids[i] < 0 THEN FALSE
  ELSE package_ids_valid(ids, total_cores, i + 1)

\* a fill that brings ids outside [0, total_cores) into the range and reports
\* success, instead of rejecting them
fill_package_ids_clamped(package_mem, total_cores, reads) ==
  LET r == fill_array_from_sys(package_mem, total_cores, reads)
  IN  [r EXCEPT !.ids = [i \in DOMAIN r.ids |->
                           IF r.ids[i] < 0 THEN 0
                           ELSE IF r.ids[i] >= total_cores THEN total_cores - 1
                           ELSE r.ids[i]]]

fill_package_ids_from_sys(package_mem, total_cores, reads) ==
  LET r == fill_array_from_sys(package_mem, total_cores, reads)
  IN  IF r.status
      THEN [r EXCEPT !.status = package_ids_valid(r.ids, total_cores, 0)]
      ELSE r

-----------------------------------------------------------------------------
\* get_topology_info

\* init_topology_struct
init_topology_struct ==
  [total_cores |-> 0, sockets |-> 0, physical_cores |-> 0,
   logical_cores |-> 0, smt_supported |-> 0]

\* for(i) package_ids_count[package_ids[i]]++
RECURSIVE count_package_ids(_, _, _, _)
count_package_ids(package_ids_count, ids, total_cores, i) ==
  IF i >= total_cores THEN package_ids_count
  ELSE count_package_ids(
         [package_ids_count EXCEPT ![ids[i]] = package_ids_count[ids[i]] + 1],
         ids, total_cores, i + 1)

\* for(i) if(package_ids_count[i] != 0) topo->sockets++
RECURSIVE count_sockets(_, _, _, _)
count_sockets(package_ids_count, total_cores, i, sockets) ==
  IF i >= total_cores THEN sockets
  ELSE count_sockets(package_ids_count, total_cores, i + 1,
                     IF package_ids_count[i] # 0 THEN sockets + 1 ELSE sockets)

\* the numeric range of the ids (largest id + 1) instead of the ids that occur
sockets_from_id_range(ids, total_cores) ==
  1 + (CHOOSE m \in {ids[i] : i \in 0 .. total_cores - 1} :
         \A i \in 0 .. total_cores - 1 : ids[i] <= m)

sockets_from_package_ids(ids, total_cores) ==
  count_sockets(
    count_package_ids([i \in 0 .. total_cores - 1 |-> 0], ids, total_cores, 0),
    total_cores, 0, 0)

\* a key that adds the two ids instead of packing them side by side
pair_key_added(package, core) == <<package + core, 0, 0>>

\* (((long long)package) << 32) | (unsigned long long)(uint32_t)core: the high
\* word is the package id, the low word the bit pattern of the core id, given
\* as <<top bit, low 31 bits>>
pair_key(package, core) ==
  <<package, IF core >= 0 THEN 0 ELSE 1,
    IF core >= 0 THEN core ELSE (core + 2147483647) + 1>>

\* for(j=0; j < unique_pairs && !found_pair; j++) if(seen_pairs[j] == key) ...
RECURSIVE found_pair(_, _, _, _)
found_pair(seen_pairs, n_seen, key, j) ==
  IF j >= n_seen THEN FALSE
  ELSE IF seen_pairs[j + 1] = key THEN TRUE
  ELSE found_pair(seen_pairs, n_seen, key, j + 1)

\* the pair loop; seen_pairs is the filled prefix of the array, so its length
\* is unique_pairs
RECURSIVE count_unique_pairs(_, _, _, _, _)
count_unique_pairs(pids, cids, total_cores, i, seen_pairs) ==
  IF i >= total_cores THEN Len(seen_pairs)
  ELSE LET key == pair_key(pids[i], cids[i])
       IN  count_unique_pairs(pids, cids, total_cores, i + 1,
             IF found_pair(seen_pairs, Len(seen_pairs), key, 0)
             THEN seen_pairs ELSE Append(seen_pairs, key))

\* what get_topology_info leaves behind: the struct and the locals
TopoResult(t, cids, pids, cok, pok, up) ==
  [topo |-> t, core_ids |-> cids, package_ids |-> pids,
   core_ids_ok |-> cok, package_ids_ok |-> pok, unique_pairs |-> up]

\* a fallback that fills the array with one constant
AllZero(total_cores) == [i \in 0 .. total_cores - 1 |-> 0]

\* for(i) ids[i] = i
Identity(total_cores) == [i \in 0 .. total_cores - 1 |-> i]

\* src/sparc/sparc.c
get_topology_info_sparc(nproc, core_mem, creads, package_mem, preads) ==
  LET total_cores == IF nproc = -1 THEN 1 ELSE nproc
      c    == fill_core_ids_from_sys(core_mem, total_cores, creads)
      cids == IF c.status THEN c.ids ELSE Identity(total_cores)
      p    == fill_package_ids_from_sys(package_mem, total_cores, preads)
      pids == IF p.status THEN p.ids ELSE Identity(total_cores)
      sockets == IF p.status THEN sockets_from_package_ids(pids, total_cores)
                 ELSE total_cores
      up   == count_unique_pairs(pids, cids, total_cores, 0, <<>>)
  IN  TopoResult(
        [total_cores    |-> total_cores,
         sockets        |-> sockets,
         physical_cores |-> IF sockets > 0 THEN CDiv(up, sockets) ELSE 0,
         logical_cores  |-> IF sockets > 0 THEN CDiv(total_cores, sockets) ELSE 0,
         smt_supported  |-> 1],
        cids, pids, c.status, p.status, up)

\* topo->smt_supported = logical / physical; if(<= 0) smt_supported = 1
parisc_smt_supported(logical_cores, physical_cores) ==
  LET smt0 == CDiv(logical_cores, physical_cores)
  IN  IF smt0 <= 0 THEN 1 ELSE smt0

\* src/parisc/parisc.c; num_sockets_package_cpus is what
\* get_num_sockets_package_cpus(topo) returns when it is called
get_topology_info_parisc(nproc, core_mem, creads, package_mem, preads, num_sockets_package_cpus) ==
  LET total_cores == IF nproc = -1 THEN 1 ELSE nproc
      c    == fill_core_ids_from_sys(core_mem, total_cores, creads)
      cids == IF c.status THEN c.ids ELSE Identity(total_cores)
      p    == fill_package_ids_from_sys(package_mem, total_cores, preads)
      pids == p.ids
      s0   == IF p.status THEN sockets_from_package_ids(pids, total_cores)
              ELSE IF num_sockets_package_cpus = UNKNOWN_DATA
                      \/ num_sockets_package_cpus <= 0
                   THEN 1 ELSE num_sockets_package_cpus
      up   == count_unique_pairs(pids, cids, total_cores, 0, <<>>)
      sockets == IF s0 <= 0 THEN 1 ELSE s0
      ph0  == IF up > 0 THEN CDiv(up, sockets)
              ELSE IF total_cores > 0 THEN CDiv(total_cores, sockets) ELSE 1
      physical_cores == IF ph0 <= 0 THEN 1 ELSE ph0
      lg0  == IF total_cores > 0 THEN CDiv(total_cores, sockets) ELSE physical_cores
      logical_cores == IF lg0 <= 0 THEN physical_cores ELSE lg0
  IN  TopoResult(
        [total_cores    |-> total_cores,
         sockets        |-> sockets,
         physical_cores |-> physical_cores,
         logical_cores  |-> logical_cores,
         smt_supported  |-> parisc_smt_supported(logical_cores, physical_cores)],
        cids, pids, c.status, p.status, up)

\* src/alpha/alpha.c: no id file is read
get_topology_info_alpha(nproc) ==
  LET total_cores == IF nproc <= 0 THEN 1 ELSE nproc
  IN  TopoResult(
        [total_cores    |-> total_cores,
         sockets        |-> 1,
         physical_cores |-> total_cores,
         logical_cores  |-> total_cores,
         smt_supported  |-> 1],
        <<>>, <<>>, FALSE, FALSE, 0)

-----------------------------------------------------------------------------
\* The C library conversions the resolvers call, on the text of a field

\* isspace, for the characters a /proc/cpuinfo line can hold
IsSpace(c) == c \in {" ", "\t"}

RECURSIVE SkipSpaces(_)
SkipSpaces(s) ==
  IF Len(s) > 0 /\ IsSpace(Head(s)) THEN SkipSpaces(Tail(s)) ELSE s

\* value of a digit character; NotADigit for any other character
NotADigit == 99

DigitValue(c) ==
  CASE c = "0" -> 0 [] c = "1" -> 1 [] c = "2" -> 2 [] c = "3" -> 3
    [] c = "4" -> 4 [] c = "5" -> 5 [] c = "6" -> 6 [] c = "7" -> 7
    [] c = "8" -> 8 [] c = "9" -> 9
    [] c \in {"a", "A"} -> 10 [] c \in {"b", "B"} -> 11
    [] c \in {"c", "C"} -> 12 [] c \in {"d", "D"} -> 13
    [] c \in {"e", "E"} -> 14 [] c \in {"f", "F"} -> 15
    [] OTHER -> NotADigit

\* An unsigned long long is held as four limbs to the base 10^6, lowest first:
\* <<l0, l1, l2, l3>> is l0 + l1 * 10^6 + l2 * 10^12 + l3 * 10^18.
Million == 1000000

BigZero == <<0, 0, 0, 0>>

\* 18446744073709551615
ULLONG_MAX == <<551615, 73709, 446744, 18>>

BigLeq(a, b) ==
  \/ a[4] < b[4]
  \/ a[4] = b[4] /\ a[3] < b[3]
  \/ a[4] = b[4] /\ a[3] = b[3] /\ a[2] < b[2]
  \/ a[4] = b[4] /\ a[3] = b[3] /\ a[2] = b[2] /\ a[1] <= b[1]

\* b * m + d, for b <= ULLONG_MAX and m <= 16
BigMulAdd(b, m, d) ==
  LET t0 == b[1] * m + d
      t1 == b[2] * m + (t0 \div Million)
      t2 == b[3] * m + (t1 \div Million)
      t3 == b[4] * m + (t2 \div Million)
  IN  <<t0 % Million, t1 % Million, t2 % Million, t3>>

\* 2^64 - b for 0 < b <= ULLONG_MAX: what negating an unsigned value yields
BigNegate(b) ==
  LET d0 == (ULLONG_MAX[1] - b[1]) + 1
      d1 == (ULLONG_MAX[2] - b[2]) + (IF d0 >= Million THEN 1 ELSE 0)
      r0 == IF d1 < 0 THEN 1 ELSE 0
      d2 == (ULLONG_MAX[3] - b[3]) - r0 + (IF d1 >= Million THEN 1 ELSE 0)
      r1 == IF d2 < 0 THEN 1 ELSE 0
      d3 == (ULLONG_MAX[4] - b[4]) - r1 + (IF d2 >= Million THEN 1 ELSE 0)
  IN  <<d0 % Million, d1 % Million, d2 % Million, d3>>

\* hz / 1000000ULL, as the long it is stored in: quotients of 10^6 MHz and
\* more are all kept as 10^6 (they only ever meet the band check)
BigDivMillion(b) ==
  IF b[3] = 0 /\ b[4] = 0 THEN b[2] ELSE Million

RECURSIVE strtoull_digits(_, _, _, _, _)
strtoull_digits(s, base, acc, any, erange) ==
  IF Len(s) = 0 \/ DigitValue(Head(s)) >= base
  THEN [val |-> acc, any |-> any, erange |-> erange]
  ELSE LET n == BigMulAdd(acc, base, DigitValue(Head(s)))
       IN  IF erange \/ ~BigLeq(n, ULLONG_MAX)
           THEN strtoull_digits(Tail(s), base, ULLONG_MAX, TRUE, TRUE)
           ELSE strtoull_digits(Tail(s), base, n, TRUE, FALSE)

\* strtoull(s, &end, base) for base 10 and 16: white space, a sign, for base
\* 16 an 0x prefix, then digits. val is the value returned, erange says that
\* errno is ERANGE afterwards.
strtoull(s, base) ==
  LET s1  == SkipSpaces(s)
      neg == Len(s1) > 0 /\ Head(s1) = "-"
      s2  == IF Len(s1) > 0 /\ Head(s1) \in {"-", "+"} THEN Tail(s1) ELSE s1
      s3  == IF base = 16 /\ Len(s2) > 2 /\ SubSeq(s2, 1, 2) \in {"0x", "0X"}
                /\ DigitValue(SubSeq(s2, 3, 3)) < 16
             THEN SubSeq(s2, 3, Len(s2)) ELSE s2
      r   == strtoull_digits(s3, base, BigZero, FALSE, FALSE)
  IN  [val    |-> IF neg /\ ~r.erange /\ r.val # BigZero
                  THEN BigNegate(r.val) ELSE r.val,
       erange |-> r.erange]

\* A double read by strtod from a plain decimal text: sign, integer part ip
\* (kept as IpSat once it reaches it), the first three fraction digits th
\* (thousandths), and more = some later fraction digit is not 0. The texts
\* explored carry no exponent and no hexadecimal, inf or nan form, and fewer
\* than 15 significant digits, so the double holds the decimal value to well
\* below one thousandth.
IpSat == 100000000

RECURSIVE strtod_int(_, _, _)
strtod_int(s, ip, any) ==
  IF Len(s) = 0 \/ DigitValue(Head(s)) >= 10
  THEN [ip |-> ip, any |-> any, rest |-> s]
  ELSE strtod_int(Tail(s),
                  IF ip * 10 + DigitValue(Head(s)) >= IpSat THEN IpSat
                  ELSE ip * 10 + DigitValue(Head(s)),
                  TRUE)

RECURSIVE strtod_frac(_, _, _, _, _)
strtod_frac(s, th, more, n, any) ==
  IF Len(s) = 0 \/ DigitValue(Head(s)) >= 10
  THEN [th |-> IF n = 1 THEN th * 100 ELSE IF n = 2 THEN th * 10 ELSE th,
        more |-> more, any |-> any]
  ELSE IF n < 3
       THEN strtod_frac(Tail(s), th * 10 + DigitValue(Head(s)), more, n + 1, TRUE)
       ELSE strtod_frac(Tail(s), th, more \/ DigitValue(Head(s)) # 0, n + 1, TRUE)

strtod(s) ==
  LET s1  == SkipSpaces(s)
      neg == Len(s1) > 0 /\ Head(s1) = "-"
      s2  == IF Len(s1) > 0 /\ Head(s1) \in {"-", "+"} THEN Tail(s1) ELSE s1
      i   == strtod_int(s2, 0, FALSE)
      f   == IF Len(i.rest) > 0 /\ Head(i.rest) = "."
             THEN strtod_frac(Tail(i.rest), 0, FALSE, 0, FALSE)
             ELSE [th |-> 0, more |-> FALSE, any |-> FALSE]
  IN  IF i.any \/ f.any
      THEN [neg |-> neg, ip |-> i.ip, th |-> f.th, more |-> f.more]
      ELSE [neg |-> FALSE, ip |-> 0, th |-> 0, more |-> FALSE]

\* d <= 0.0
DoubleLeqZero(d) == d.neg \/ (d.ip = 0 /\ d.th = 0 /\ ~d.more)

\* a conversion that drops the fraction
DoubleTruncToLong(d) == d.ip

\* (long)(d + 0.5) for d > 0
DoubleRoundToLong(d) == d.ip + (IF d.th >= 500 THEN 1 ELSE 0)

\* a field of /proc/cpuinfo as get_field_from_cpuinfo returns it: NULL when
\* the key is on no line, else the text that follows the key
NoField == [present |-> FALSE, text |-> ""]

Field(t) == [present |-> TRUE, text |-> t]

-----------------------------------------------------------------------------
\* Frequency resolver

\* src/sparc/udev.c: Cpu0ClkTck, a hexadecimal count of Hz
get_frequency_from_cpuinfo_sparc(clk_str) ==
  IF ~clk_str.present THEN UNKNOWN_DATA
  ELSE LET hz == strtoull(clk_str.text, 16)
           mhz == BigDivMillion(hz.val)
       IN  IF hz.erange THEN UNKNOWN_DATA
           ELSE IF hz.val = BigZero THEN UNKNOWN_DATA
           ELSE IF mhz > 10000 \/ mhz < 100 THEN UNKNOWN_DATA
           ELSE mhz

\* src/parisc/udev.c: cpu MHz, a decimal number of MHz
get_frequency_from_cpuinfo_parisc(mhz_str) ==
  IF ~mhz_str.present THEN UNKNOWN_DATA
  ELSE LET mhz_d == strtod(mhz_str.text)
           mhz == DoubleRoundToLong(mhz_d)
       IN  IF DoubleLeqZero(mhz_d) THEN UNKNOWN_DATA
           ELSE IF mhz > 10000 \/ mhz < 100 THEN UNKNOWN_DATA
           ELSE mhz

\* while (*ptr && (*ptr == ' ' || *ptr == '\t' || *ptr == ':')) ptr++
RECURSIVE skip_to_number(_)
skip_to_number(s) ==
  IF Len(s) > 0 /\ Head(s) \in {" ", "\t", ":"} THEN skip_to_number(Tail(s)) ELSE s

\* the tail both branches of get_frequency_from_cpuinfo_alpha share
alpha_hz_to_mhz(text) ==
  LET hz == strtoull(text, 10)
      mhz == BigDivMillion(hz.val)
  IN  IF hz.erange \/ hz.val = BigZero THEN UNKNOWN_DATA
      ELSE IF mhz < 50 \/ mhz > 10000 THEN UNKNOWN_DATA
      ELSE mhz

\* src/alpha/udev.c: cycle frequency [Hz]; hz_tab is the lookup with the
\* tab-and-colon key, hz_plain the lookup with the bare field name
get_frequency_from_cpuinfo_alpha(hz_tab, hz_plain) ==
  IF ~hz_tab.present
  THEN IF ~hz_plain.present THEN UNKNOWN_DATA
       ELSE alpha_hz_to_mhz(skip_to_number(hz_plain.text))
  ELSE alpha_hz_to_mhz(hz_tab.text)

\* get_frequency_info of sparc.c and parisc.c; maxf and minf are what
\* get_max_freq_from_file(0) and get_min_freq_from_file(0) return
get_frequency_info(maxf, minf, from_cpuinfo) ==
  [measured |-> FALSE,
   max      |-> IF maxf = UNKNOWN_DATA THEN from_cpuinfo ELSE maxf,
   base     |-> minf]

\* get_frequency_info of alpha.c
get_frequency_info_alpha(maxf, minf, mhz) ==
  [measured |-> FALSE,
   max      |-> IF maxf = UNKNOWN_DATA
                THEN (IF mhz # UNKNOWN_DATA THEN mhz ELSE maxf)
                ELSE maxf,
   base     |-> minf]

\* get_max_freq_from_file / get_min_freq_from_file (src/common/udev.c): the
\* scaling-driver value in MHz once validated, else UNKNOWN_DATA
FreqFileVals == {UNKNOWN_DATA, 100, 800, 10000}

\* Cpu0ClkTck texts: 1 GHz, the band's ends and their neighbours, zero, empty,
\* no digit, 2^64 - 1, seventeen digits, a sign, leading space, 0x, a suffix
SparcClkTexts ==
  {"000000003b9aca00", "0000000005f5e100", "0000000005f5e0ff",
   "00000002540be400", "00000002541b263f", "00000002541b2640",
   "0000000000000000", "", "zz", "ffffffffffffffff", "10000000000000000",
   "-1", " 3B9ACA00", "0x3b9aca00", "3b9aca00 Hz", "0x"}

\* cpu MHz texts
PariscMhzTexts ==
  {"616.54", "30", "99.49", "99.5", "100", "100.000", "10000.4", "10000.5",
   "10001", "0", "0.000", "0.0004", "-250", "", "MHz", "  250.000",
   "250 MHz", ".5", "2500.", "+1000.25", "999999999999"}

\* cycle frequency [Hz] texts after the tab-and-colon key
AlphaHzTabTexts ==
  {"616541423 est.", "50000000", "49999999", "99999999", "100000000",
   "10000999999", "10001000000", "0", "", "est.", "18446744073709551615",
   "18446744073709551616", "-1", "-18446744073609551616"}

\* the rest of the line after the bare field name
AlphaHzPlainTexts ==
  {"    : 616541423 est.", ": 66000000", " \t: 0", "", " : ", ":x5", "  500000000"}

-----------------------------------------------------------------------------
\* before get_frequency_info: no struct frequency, nothing read
NoFrequency == [measured |-> FALSE, max |-> UNKNOWN_DATA, base |-> UNKNOWN_DATA]

FreqNotRead ==
  /\ freq = NoFrequency
  /\ max_file = UNKNOWN_DATA
  /\ min_file = UNKNOWN_DATA
  /\ hz_field = NoField
  /\ hz_field_plain = NoField

-----------------------------------------------------------------------------
\* Cache builder

\* A C long as the builder uses it: pos says whether it is > 0, i32 is the
\* value once stored in an int32_t field (long is 64 bits wide)
LongOf(v) == [pos |-> v > 0, i32 |-> v]

\* a file that cannot be opened
NoFile == <<-1>>

\* read_be_cells_from_file: file is NoFile or the bytes read (at most 8)
read_be_cells_from_file(file) ==
  LET n == Len(file)
  IN  IF file = NoFile \/ n < 4 THEN LongOf(-1)
      ELSE [pos |-> \E k \in n - 3 .. n : file[k] # 0,
            i32 |-> (IF file[n - 3] >= 128 THEN file[n - 3] - 256 ELSE file[n - 3])
                      * 16777216
                    + file[n - 2] * 65536 + file[n - 1] * 256 + file[n]]

\* read_cache_from_dt: files[i] is the property under bases[i]
RECURSIVE read_cache_from_dt(_, _)
read_cache_from_dt(files, i) ==
  IF i > Len(files) THEN LongOf(-1)
  ELSE LET v == read_be_cells_from_file(files[i])
       IN  IF v.pos THEN v ELSE read_cache_from_dt(files, i + 1)

\* get_l1i_cache_size_sparc and its three siblings; fallback is what the
\* common sysfs getter returns
get_cache_size_sparc(files, fallback) ==
  LET v == read_cache_from_dt(files, 1)
  IN  IF v.pos THEN v ELSE fallback

UpperCase == "ABCDEFGHIJKLMNOPQRSTUVWXYZ"

LowerCase == "abcdefghijklmnopqrstuvwxyz"

RECURSIVE to_lower_from(_, _)
to_lower_from(c, k) ==
  IF k > Len(UpperCase) THEN c
  ELSE IF SubSeq(UpperCase, k, k) = c THEN SubSeq(LowerCase, k, k)
  ELSE to_lower_from(c, k + 1)

\* unit[j] - 'A' + 'a' for upper-case letters
RECURSIVE normalize_unit(_)
normalize_unit(u) ==
  IF Len(u) = 0 THEN "" ELSE to_lower_from(Head(u), 1) \o normalize_unit(Tail(u))

RECURSIVE skip_blanks(_)
skip_blanks(s) == IF Len(s) > 0 /\ Head(s) = " " THEN skip_blanks(Tail(s)) ELSE s

RECURSIVE strtol_digits(_, _, _)
strtol_digits(s, acc, any) ==
  IF Len(s) = 0 \/ DigitValue(Head(s)) >= 10 THEN [val |-> acc, any |-> any, rest |-> s]
  ELSE strtol_digits(Tail(s), acc * 10 + DigitValue(Head(s)), TRUE)

\* strtol(p, &endptr, 10) on texts of at most 8 digits: moved = endptr # p
strtol(p) ==
  LET s1  == SkipSpaces(p)
      neg == Len(s1) > 0 /\ Head(s1) = "-"
      s2  == IF Len(s1) > 0 /\ Head(s1) \in {"-", "+"} THEN Tail(s1) ELSE s1
      r   == strtol_digits(s2, 0, FALSE)
  IN  [val |-> IF neg THEN 0 - r.val ELSE r.val, moved |-> r.any,
       rest |-> IF r.any THEN r.rest ELSE p]

\* the unit token: up to a blank, a tab or a comma, its first 7 characters kept
RECURSIVE unit_token(_)
unit_token(s) ==
  IF Len(s) = 0 \/ Head(s) \in {" ", "\t", ","} THEN ""
  ELSE Head(s) \o unit_token(Tail(s))

\* value * 1024 and value * 1024 * 1024 as a long, for value > 0
LongTimes(value, shift) ==
  LET m == IF shift = 10 THEN 4194304 ELSE 4096
      h == m \div 2
      f == IF shift = 10 THEN 1024 ELSE 1048576
      r == value % m
  IN  [pos |-> TRUE, i32 |-> IF r >= h THEN (r - m) * f ELSE r * f]

\* parse_size_kb_field
parse_size_kb_field(s) ==
  LET num  == strtol(skip_blanks(s))
      tok  == unit_token(skip_blanks(num.rest))
      unit == normalize_unit(IF Len(tok) > 7 THEN SubSeq(tok, 1, 7) ELSE tok)
  IN  IF ~num.moved THEN LongOf(-1)
      ELSE IF num.val <= 0 THEN LongOf(-1)
      ELSE IF unit = "" \/ unit = "kb" THEN LongTimes(num.val, 10)
      ELSE IF unit = "mb" THEN LongTimes(num.val, 20)
      ELSE IF unit = "b" \/ unit = "bytes" THEN LongOf(num.val)
      ELSE LongTimes(num.val, 10)

get_cache_size_from_cpuinfo_key(line) ==
  IF ~line.present THEN LongOf(-1) ELSE parse_size_kb_field(line.text)

\* get_l1i_cache_size_parisc, get_l1d_cache_size_parisc
get_l1_cache_size_parisc(line, fallback) ==
  LET v == get_cache_size_from_cpuinfo_key(line)
  IN  IF v.pos THEN v ELSE fallback

\* cach_arr index of each level
L1i == 0

L1d == 1

L2 == 2

L3 == 3

CacheLevels == {L1i, L1d, L2, L3}

\* init_cache_struct: exists and max_cache_level are set, size and num_caches
\* keep what the allocation left in them
init_cache_struct(leftover) ==
  [max_cache_level |-> 0,
   cach_arr |-> [l \in CacheLevels |->
                   [exists |-> FALSE, size |-> leftover.size,
                    num_caches |-> leftover.num_caches]]]

\* one "if(size > 0) { exists; num_caches; max_cache_level }" block
cache_level_found(c, l, n, level) ==
  IF c.cach_arr[l].size > 0
  THEN [max_cache_level |-> level,
        cach_arr |-> [c.cach_arr EXCEPT ![l].exists = TRUE,
                                        ![l].num_caches = n]]
  ELSE c

\* the four size assignments
with_sizes(c, sizes) ==
  [c EXCEPT !.cach_arr = [l \in CacheLevels |->
                            [c.cach_arr[l] EXCEPT !.size = sizes[l].i32]]]

\* src/sparc/sparc.c; nproc is what sysconf(_SC_NPROCESSORS_ONLN) returns
get_cache_info_sparc(leftover, sizes, nproc) ==
  LET per_core == IF nproc > 0 /\ nproc < 256 THEN nproc ELSE 1
      c0 == with_sizes(init_cache_struct(leftover), sizes)
      c1 == cache_level_found(c0, L1i, per_core, 1)
      c2 == cache_level_found(c1, L1d, per_core, 2)
      c3 == cache_level_found(c2, L2, per_core, 3)
  IN  cache_level_found(c3, L3, IF nproc > 1 /\ nproc < 256 THEN 2 ELSE 1, 4)

\* src/parisc/parisc.c; num_caches_by_level[l] is what
\* get_num_caches_by_level(cpu, l) returns
get_cache_info_parisc(leftover, sizes, num_caches_by_level) ==
  LET c0 == with_sizes(init_cache_struct(leftover), sizes)
      c1 == cache_level_found(c0, L1i, num_caches_by_level[L1i], 1)
      c2 == cache_level_found(c1, L1d, num_caches_by_level[L1d], 2)
      c3 == cache_level_found(c2, L2, num_caches_by_level[L2], 3)
  IN  cache_level_found(c3, L3, num_caches_by_level[L3], 4)

\* src/alpha/alpha.c: for(i = 0; i < max_cache_level + 1; i++)
get_cache_info_alpha(leftover) ==
  LET c0 == init_cache_struct(leftover)
  IN  [max_cache_level |-> 2,
       cach_arr |-> [l \in CacheLevels |->
                       IF l < 2 + 1
                       THEN [exists |-> TRUE, size |-> 0, num_caches |-> 1]
                       ELSE c0.cach_arr[l]]]

-----------------------------------------------------------------------------
\* Performance estimator

\* An int64_t as sign and magnitude, the magnitude in limbs to the base 10^6
Int64(v) ==
  [neg |-> v < 0,
   mag |-> LET a == IF v < 0 THEN 0 - v ELSE v
           IN  <<a % Million, a \div Million, 0, 0>>]

Int64Positive(x) == ~x.neg /\ x.mag # BigZero

\* freq * 1000000
Int64TimesMillion(v) ==
  [neg |-> v < 0,
   mag |-> LET a == IF v < 0 THEN 0 - v ELSE v
           IN  <<0, a % Million, a \div Million, 0>>]

\* m * x for an int m with |m| < 2000, the product within 64 bits
Int64TimesInt(m, x) ==
  LET a   == IF m < 0 THEN 0 - m ELSE m
      mag == BigMulAdd(x.mag, a, 0)
  IN  [neg |-> mag # BigZero /\ (x.neg # (m < 0)), mag |-> mag]

\* strstr(name, pat) != NULL
RECURSIVE Contains(_, _)
Contains(name, pat) ==
  IF Len(name) < Len(pat) THEN FALSE
  ELSE IF SubSeq(name, 1, Len(pat)) = pat THEN TRUE
  ELSE Contains(Tail(name), pat)

\* a flops-per-cycle count that ignores the model name
flops_per_cycle_one(name) == 1

\* src/parisc/parisc.c
parisc_flops_per_cycle(name) ==
  IF ~name.present THEN 1
  ELSE IF Contains(name.text, "PA8") \/ Contains(name.text, "PA-8")
          \/ Contains(name.text, "PA 8") THEN 2
  ELSE IF Contains(name.text, "PA8700") \/ Contains(name.text, "PA-8700") THEN 2
  ELSE IF Contains(name.text, "PA8800") \/ Contains(name.text, "PA-8800") THEN 2
  ELSE IF Contains(name.text, "PA8900") \/ Contains(name.text, "PA-8900") THEN 2
  ELSE 1

\* flops_per_cycle of the backend's static estimator
flops_per_cycle(a, name) == IF a = "parisc" THEN parisc_flops_per_cycle(name) ELSE 1

\* if(freq == UNKNOWN_DATA) return -1;
\* physical_cores * sockets * (freq * 1000000) * (int64_t)flops_per_cycle
get_peak_performance_estimate(a, name, t, mhz) ==
  IF mhz = UNKNOWN_DATA THEN Int64(-1)
  ELSE Int64TimesInt(flops_per_cycle(a, name),
                     Int64TimesInt(t.physical_cores * t.sockets, Int64TimesMillion(mhz)))

\* get_freq
get_freq(f) == f.max

\* (env != NULL && env[0] == '1')
env_is_one(e) == e.present /\ Len(e.text) > 0 /\ Head(e.text) = "1"

\* a double number of seconds: ms thousandths, more = a little above that
Seconds(ms) == [ms |-> ms, more |-> FALSE]

\* double target_seconds = 2.0 (alpha.c, parisc.c), 0.6 (sparc.c)
default_target_seconds(a) == IF a = "sparc" THEN Seconds(600) ELSE Seconds(2000)

\* an override check that lets 30 s through
override_upto_30(dflt, dur) ==
  LET v == strtod(dur)
  IN  IF ~v.neg /\ (v.ip > 0 \/ v.th > 50 \/ (v.th = 50 /\ v.more))
         /\ (v.ip < 30 \/ (v.ip = 30 /\ v.th = 0 /\ ~v.more))
      THEN [ms |-> v.ip * 1000 + v.th, more |-> v.more]
      ELSE dflt

\* double v = atof(dur); if(v > 0.05 && v < 30.0) target_seconds = v
override_target_seconds(dflt, dur) ==
  LET v == strtod(dur)
  IN  IF ~v.neg /\ (v.ip > 0 \/ v.th > 50 \/ (v.th = 50 /\ v.more)) /\ v.ip < 30
      THEN [ms |-> v.ip * 1000 + v.th, more |-> v.more]
      ELSE dflt

\* the target duration measure_peak_performance_f32 settles on
f32_target_seconds(a, e) ==
  IF env_is_one(e.flops) /\ e.secs.present
  THEN override_target_seconds(default_target_seconds(a), e.secs.text)
  ELSE default_target_seconds(a)

\* if((iters & 0x3FF) == 0)
SampleEvery == 1024

\* elapsed >= target_seconds, elapsed a whole number of milliseconds
reached_target(elapsed_ms, target) ==
  IF target.more THEN elapsed_ms > target.ms ELSE elapsed_ms >= target.ms

\* the value a kernel returns at the sample that ends it:
\* (int64_t)(((double)iters * ops_per_iter) / elapsed * (double)(physical * sockets)),
\* -1 when that total is <= 0.0. The quotient is exact here; the double
\* arithmetic of the code is within one unit of it.
kernel_total(n, ops_per_iter, elapsed_ms, t) ==
  LET cores == t.physical_cores * t.sockets
  IN  IF cores <= 0 THEN Int64(-1)
      ELSE Int64((n * ops_per_iter * 1000 * cores) \div elapsed_ms)

\* a selection that takes any measurement that is not negative
select_not_negative(m, estimate) == IF ~m.neg THEN m ELSE estimate

\* if(measured > 0) peak_performance = measured; else the static estimate
select_peak_performance(m, estimate) == IF Int64Positive(m) THEN m ELSE estimate

-----------------------------------------------------------------------------
\* String accessors of src/common/cpu.c: cache sizes

\* 1<<20
MiB == 1048576

\* 1<<10
KiB == 1024

\* A uint32_t is held as <<value \div 2^20, value % 2^20>>.
\* (uint32_t)v for an int32_t v
Uint32(v) == <<(v \div MiB) % 4096, v % MiB>>

\* u * n without reduction: the mathematical product, for 0 <= n < 2048
TimesExact(u, n) == <<u[1] * n + ((u[2] * n) \div MiB), (u[2] * n) % MiB>>

\* cache_size * physical_cores, int32_t by uint32_t: u * n modulo 2^32
TimesUint32(u, n) == <<TimesExact(u, n)[1] % 4096, TimesExact(u, n)[2]>>

RECURSIVE Pow10(_)
Pow10(d) == IF d = 0 THEN 1 ELSE 10 * Pow10(d - 1)

RECURSIVE NumDigits(_)
NumDigits(n) == IF n < 10 THEN 1 ELSE 1 + NumDigits(n \div 10)

\* the first d decimal digits of f / unit, and what is left of f
RECURSIVE frac_digits(_, _, _, _)
frac_digits(f, unit, d, acc) ==
  IF d = 0 THEN [digits |-> acc, rem |-> f]
  ELSE frac_digits((f * 10) % unit, unit, d - 1, acc * 10 + ((f * 10) \div unit))

\* zeros between the decimal point and the first digit of f / unit, 0 < f < unit
RECURSIVE leading_zeros(_, _)
leading_zeros(f, unit) ==
  IF f * 10 >= unit THEN 0 ELSE 1 + leading_zeros(f * 10, unit)

\* n + 1, n + (n % 2) or n: round to nearest, ties to even, on twice the
\* remainder against the unit
round_half_even(n, twice_rem, unit) ==
  IF twice_rem > unit THEN n + 1
  ELSE IF twice_rem = unit THEN n + (n % 2)
  ELSE n

\* n as exactly d digits
RECURSIVE PadDigits(_, _)
PadDigits(n, d) ==
  IF d = 0 THEN "" ELSE PadDigits(n \div 10, d - 1) \o ToString(n % 10)

\* the fraction n / 10^d without its trailing zeros, with its decimal point
RECURSIVE fraction_text(_, _)
fraction_text(n, d) ==
  IF d = 0 THEN ""
  ELSE IF n % 10 = 0 THEN fraction_text(n \div 10, d - 1)
  ELSE "." \o PadDigits(n, d)

\* n / 10^d in %g's fixed style
fixed_text(n, d) == ToString(n \div Pow10(d)) \o fraction_text(n % Pow10(d), d)

\* "%.4g" of i + f / unit (i >= 0, 0 <= f < unit): four significant digits,
\* trailing zeros removed, exponent style from 9999.5 on
format_4g(i, f, unit) ==
  IF i >= 1000
  THEN LET k  == NumDigits(i)
           p  == Pow10(k - 4)
           n0 == i \div p
           n  == IF k = 4 THEN round_half_even(n0, 2 * f, unit)
                 ELSE round_half_even(n0, 2 * (i % p) + (IF f > 0 THEN 1 ELSE 0), p)
           e  == IF n >= 10000 THEN k ELSE k - 1
           m  == IF n >= 10000 THEN n \div 10 ELSE n
       IN  IF e < 4 THEN ToString(n)
           ELSE fixed_text(m, 3) \o "e+" \o PadDigits(e, 2)
  ELSE IF i = 0 /\ f = 0 THEN "0"
  ELSE LET d == IF i >= 100 THEN 1 ELSE IF i >= 10 THEN 2 ELSE IF i >= 1 THEN 3
                ELSE 4 + leading_zeros(f, unit)
           r == frac_digits(f, unit, d, 0)
       IN  fixed_text(round_half_even(i * Pow10(d) + r.digits, 2 * r.rem, unit), d)

\* snprintf(*str, max_len, ...) with max_len = 10: str holds at most 9
\* characters, ret is the length of the untruncated text
get_value_as_smallest_unit(value) ==
  LET text == IF value[1] >= 1
              THEN format_4g(value[1], value[2], MiB) \o "MB"
              ELSE format_4g(value[2] \div KiB, value[2] % KiB, KiB) \o "KB"
  IN  [str |-> IF Len(text) > 9 THEN SubSeq(text, 1, 9) ELSE text, ret |-> Len(text)]

\* get_str_cache_two; snprintf returns no negative value here
get_str_cache_two(size, physical_cores) ==
  LET tmp1 == get_value_as_smallest_unit(Uint32(size))
      tmp2 == get_value_as_smallest_unit(TimesUint32(Uint32(size), physical_cores))
  IN  tmp1.str \o " (" \o tmp2.str \o " Total)"

get_str_cache_one(size) == get_value_as_smallest_unit(Uint32(size)).str

get_str_cache(size, n) ==
  IF n > 1 THEN get_str_cache_two(size, n)
  ELSE get_str_cache_one(size)

-----------------------------------------------------------------------------
\* String accessors of src/common/cpu.c: throughput

\* STRING_UNKNOWN (src/common/global.h)
STRING_UNKNOWN == "Unknown"

\* the decimal digits of a magnitude held in limbs
BigText(b) ==
  IF b[4] > 0
  THEN ToString(b[4]) \o PadDigits(b[3], 6) \o PadDigits(b[2], 6) \o PadDigits(b[1], 6)
  ELSE IF b[3] > 0 THEN ToString(b[3]) \o PadDigits(b[2], 6) \o PadDigits(b[1], 6)
  ELSE IF b[2] > 0 THEN ToString(b[2]) \o PadDigits(b[1], 6)
  ELSE ToString(b[1])

\* s with zeros in front up to n characters
RECURSIVE ZeroPad(_, _)
ZeroPad(s, n) == IF Len(s) >= n THEN s ELSE ZeroPad("0" \o s, n)

\* the digit string s plus one
RECURSIVE IncText(_)
IncText(s) ==
  IF Len(s) = 0 THEN "1"
  ELSE LET front == SubSeq(s, 1, Len(s) - 1)
           d     == DigitValue(SubSeq(s, Len(s), Len(s)))
       IN  IF d = 9 THEN IncText(front) \o "0" ELSE front \o ToString(d + 1)

RECURSIVE AllZeros(_)
AllZeros(s) == Len(s) = 0 \/ (Head(s) = "0" /\ AllZeros(Tail(s)))

\* "%.2f" of x / 10^k for the int64_t x, k >= 3. The conversion to double and
\* the division are taken as exact; where the exact quotient lies halfway
\* between two printed values the digit printed depends on the binary
\* quotient, and tie_up says which way it went
format_2f(x, k, tie_up) ==
  LET digits == ZeroPad(BigText(x.mag), k + 1)
      n      == Len(digits)
      kept   == SubSeq(digits, 1, n - k + 2)
      third  == DigitValue(SubSeq(digits, n - k + 3, n - k + 3))
      rest   == SubSeq(digits, n - k + 4, n)
      up     == third > 5 \/ (third = 5 /\ (~AllZeros(rest) \/ tie_up))
      r      == ZeroPad(IF up THEN IncText(kept) ELSE kept, 3)
  IN  (IF x.neg THEN "-" ELSE "") \o SubSeq(r, 1, Len(r) - 2) \o "."
        \o SubSeq(r, Len(r) - 1, Len(r))

\* "%lld"
format_lld(x) == (IF x.neg THEN "-" ELSE "") \o BigText(x.mag)

\* snprintf(str, max_size, ...): at most max_size - 1 characters are stored
snprintf_cut(text, max_size) ==
  IF Len(text) > max_size - 1 THEN SubSeq(text, 1, max_size - 1) ELSE text

\* x >= 10^k for the int64_t x, k one of 3, 6, 9, 12
AtLeastPow10(x, k) ==
  /\ ~x.neg
  /\ \/ x.mag[4] > 0
     \/ x.mag[3] > 0 /\ k <= 12
     \/ x.mag[2] >= 1000 /\ k <= 9
     \/ x.mag[2] > 0 /\ k <= 6
     \/ x.mag[1] >= 1000 /\ k <= 3

get_str_peak_performance(flops, tie_up) ==
  IF flops = Int64(-1) THEN STRING_UNKNOWN
  ELSE IF AtLeastPow10(flops, 12)
       THEN snprintf_cut(format_2f(flops, 12, tie_up) \o " TFLOP/s", 17)
  ELSE IF AtLeastPow10(flops, 9)
       THEN snprintf_cut(format_2f(flops, 9, tie_up) \o " GFLOP/s", 17)
  ELSE snprintf_cut(format_2f(flops, 6, tie_up) \o " MFLOP/s", 17)

\* an accessor that scales values below 1000 as well
get_str_ops_all_scaled(ops, tie_up) ==
  IF ops = Int64(-1) THEN STRING_UNKNOWN
  ELSE IF AtLeastPow10(ops, 12) THEN format_2f(ops, 12, tie_up) \o " TOPS"
  ELSE IF AtLeastPow10(ops, 9) THEN format_2f(ops, 9, tie_up) \o " GOPS"
  ELSE IF AtLeastPow10(ops, 6) THEN format_2f(ops, 6, tie_up) \o " MOPS"
  ELSE format_2f(ops, 3, tie_up) \o " KOPS"

get_str_ops(ops, tie_up) ==
  IF ops = Int64(-1) THEN STRING_UNKNOWN
  ELSE IF AtLeastPow10(ops, 12)
       THEN snprintf_cut(format_2f(ops, 12, tie_up) \o " TOPS", 32)
  ELSE IF AtLeastPow10(ops, 9)
       THEN snprintf_cut(format_2f(ops, 9, tie_up) \o " GOPS", 32)
  ELSE IF AtLeastPow10(ops, 6)
       THEN snprintf_cut(format_2f(ops, 6, tie_up) \o " MOPS", 32)
  ELSE IF AtLeastPow10(ops, 3)
       THEN snprintf_cut(format_2f(ops, 3, tie_up) \o " KOPS", 32)
  ELSE snprintf_cut(format_lld(ops) \o " OPS", 32)

-----------------------------------------------------------------------------
\* String accessors of src/common/cpu.c: frequency

\* "%.3f" of (float)max / 1000 for 1000 <= max < 16384000: below 16384 the
\* float quotient is within 0.0005 of max / 1000, so the three decimals
\* printed are those of max / 1000
format_3f_ghz(max) == ToString(max \div 1000) \o "." \o PadDigits(max % 1000, 3)

\* uint32_t size = (1+5+1+3+1)
STR_FREQ_SIZE == 11

get_str_freq(f) ==
  IF f.max = UNKNOWN_DATA \/ f.max < 0
  THEN snprintf_cut(STRING_UNKNOWN, Len(STRING_UNKNOWN) + 1)
  ELSE IF f.max >= 1000
       THEN snprintf_cut((IF f.measured THEN "~" ELSE "") \o format_3f_ghz(f.max) \o " GHz",
                         STR_FREQ_SIZE)
  ELSE snprintf_cut((IF f.measured THEN "~" ELSE "") \o ToString(f.max) \o " MHz",
                    STR_FREQ_SIZE)

-----------------------------------------------------------------------------
\* get_str_topology (alpha.c, sparc.c and parisc.c hold the same text)

\* uint32_t size = 3+3+17+1
STR_THREADS_SIZE == 24

\* uint32_t size = 3+7+1
STR_CORES_SIZE == 11

get_str_topology(t, dual) ==
  LET by == IF dual THEN t.sockets ELSE 1
  IN  IF t.smt_supported > 1
      THEN snprintf_cut(ToString(t.physical_cores * by) \o " cores ("
                          \o ToString(t.logical_cores * by) \o " threads)", STR_THREADS_SIZE)
      ELSE snprintf_cut(ToString(t.physical_cores * by) \o " cores", STR_CORES_SIZE)

-----------------------------------------------------------------------------
\* get_uarch (src/alpha/uarch.c, src/sparc/uarch.c, src/parisc/uarch.c)

\* the keys get_uarch hands to get_field_from_cpuinfo
NameKeys(a) ==
  IF a = "alpha" THEN {"cpu\t\t: ", "model name\t: ", "cpu model\t: "}
  ELSE IF a = "sparc" THEN {"MMU Type\t\t: ", "pmu\t\t: "}
  ELSE {"cpu\t\t: ", "model\t\t: "}

AllNameKeys == NameKeys("alpha") \cup NameKeys("sparc") \cup NameKeys("parisc")

\* get_field_from_cpuinfo(key) (src/common/udev.c): NULL when no line holds
\* the key, else the rest of that line, which may be empty
get_field_from_cpuinfo(ci, key) == ci[key]

strdup_or_null(s) == s

make_uarch(name, process) == [name |-> name, process |-> process]

map_pmu_to_uarch(pmu) ==
  IF ~pmu.present THEN NoField
  ELSE IF Contains(pmu.text, "ultra3i") THEN strdup_or_null(Field("Cheetah+"))
  ELSE IF Contains(pmu.text, "ultra3+") THEN strdup_or_null(Field("Cheetah+"))
  ELSE IF Contains(pmu.text, "ultra3") THEN strdup_or_null(Field("Cheetah"))
  ELSE IF Contains(pmu.text, "ultra4+") THEN strdup_or_null(Field("UltraSPARC IV+"))
  ELSE IF Contains(pmu.text, "ultra12") THEN strdup_or_null(Field("UltraSPARC I/II"))
  ELSE NoField

get_uarch_alpha(ci) ==
  LET m1 == get_field_from_cpuinfo(ci, "cpu\t\t: ")
      m2 == IF ~m1.present THEN get_field_from_cpuinfo(ci, "model name\t: ") ELSE m1
      m3 == IF ~m2.present THEN get_field_from_cpuinfo(ci, "cpu model\t: ") ELSE m2
      m4 == IF ~m3.present THEN strdup_or_null(Field(STRING_UNKNOWN)) ELSE m3
  IN  make_uarch(m4, NoField)

get_uarch_sparc(ci) ==
  LET mmu  == get_field_from_cpuinfo(ci, "MMU Type\t\t: ")
      name == IF mmu.present /\ Len(mmu.text) > 0 THEN strdup_or_null(mmu)
              ELSE map_pmu_to_uarch(get_field_from_cpuinfo(ci, "pmu\t\t: "))
  IN  make_uarch(IF ~name.present THEN strdup_or_null(Field(STRING_UNKNOWN)) ELSE name,
                 NoField)

get_uarch_name_from_cpuinfo(ci) ==
  LET cpu   == get_field_from_cpuinfo(ci, "cpu\t\t: ")
      model == get_field_from_cpuinfo(ci, "model\t\t: ")
  IN  IF cpu.present /\ Len(cpu.text) > 0 THEN cpu
      ELSE IF model.present /\ Len(model.text) > 0 THEN model
      ELSE NoField

get_uarch_parisc(ci) ==
  LET name == get_uarch_name_from_cpuinfo(ci)
  IN  make_uarch(IF ~name.present THEN strdup_or_null(Field(STRING_UNKNOWN)) ELSE name,
                 NoField)

\* before get_uarch: no name field looked up, cpu->arch not set
NoUarch == make_uarch(NoField, NoField)

\* no id file read yet
FillNotRun ==
  /\ read_log = <<>>
  /\ fill_i = 0

UarchNotRead ==
  /\ cpuinfo = [k \in AllNameKeys |-> NoField]
  /\ uarch = NoUarch

-----------------------------------------------------------------------------
\* get_cache_info as a step of get_cpu_info

\* before get_topology_info: the struct is not allocated, nothing is read
TopoNotRead ==
  /\ topo = init_topology_struct
  /\ core_ids = <<>>
  /\ package_ids = <<>>
  /\ core_ids_ok = FALSE
  /\ package_ids_ok = FALSE
  /\ unique_pairs = 0
  /\ core_reads = <<>>
  /\ package_reads = <<>>

\* what a fresh allocation may hold in size and num_caches
LeftoverCach == {[size |-> 0, num_caches |-> 0], [size |-> 65536, num_caches |-> 7]}

\* no toggle set, no environment variable
NoEnv ==
  [accurate_pp |-> FALSE, accurate_pp_with_ops |-> FALSE, flops |-> NoField,
   secs |-> NoField]

\* no string accessor has been called
NoString == ""

StrNotAsked ==
  /\ UarchNotRead
  /\ FillNotRun
  /\ cache_size = 0
  /\ num_caches = 0
  /\ dual_socket = FALSE
  /\ string = NoString

\* before the performance estimator: fields not yet assigned
\* no sample taken since the kernel's t0 reading
NoSample == [ok |-> TRUE, elapsed_ms |-> -1]

PerfNotRun ==
  /\ cpu_name = NoField
  /\ env = NoEnv
  /\ target_seconds = Seconds(0)
  /\ iters = 0
  /\ measured = Int64(0)
  /\ f32_clock = "unread"
  /\ sample = NoSample
  /\ peak_performance = Int64(0)
  /\ vis_ops_performance = Int64(0)

\* get_l1i_cache_size .. get_l3_cache_size (src/common/udev.c): the size in
\* bytes, 0, or UNKNOWN_DATA when the level has no sysfs entry
SysfsSizes == {LongOf(UNKNOWN_DATA), LongOf(0), LongOf(32768)}

SizeSource(files, line, fallback) ==
  [files |-> files, line |-> line, fallback |-> fallback]

NotConsulted == SizeSource(<<>>, NoField, LongOf(UNKNOWN_DATA))

\* the property is under none of the six bases
NoDt == <<NoFile, NoFile, NoFile, NoFile, NoFile, NoFile>>

\* device-tree properties: absent; 64 KiB under the first base; a zero cell
\* under the first base and 32 KiB in the second of two cells under the last;
\* a two-byte file; a cell with the top bit set
SparcSizeSources ==
  {SizeSource(NoDt, NoField, f) : f \in SysfsSizes}
  \cup {SizeSource([NoDt EXCEPT ![1] = <<0, 1, 0, 0>>], NoField, LongOf(UNKNOWN_DATA)),
        SizeSource([NoDt EXCEPT ![1] = <<0, 0, 0, 0>>,
                                ![6] = <<0, 0, 0, 0, 0, 0, 128, 0>>], NoField, LongOf(0)),
        SizeSource([NoDt EXCEPT ![1] = <<0, 1>>], NoField, LongOf(32768)),
        SizeSource([NoDt EXCEPT ![1] = <<128, 0, 0, 0>>], NoField, LongOf(UNKNOWN_DATA))}

\* I-cache / D-cache texts of /proc/cpuinfo
PariscCacheTexts ==
  {"64 KB", "512 KB, 4-way, 32 byte line", "1 MB", "32768 Bytes", "0 KB", "",
   "KB", "-4 KB", "768", "  16 kB\t(assoc 1)", "2 kilobytes"}

PariscL1Sources ==
  {SizeSource(<<>>, NoField, f) : f \in SysfsSizes}
  \cup {SizeSource(<<>>, Field(t), LongOf(UNKNOWN_DATA)) : t \in PariscCacheTexts}
  \cup {SizeSource(<<>>, Field("0 KB"), LongOf(32768))}

PariscSysfsSources == {SizeSource(<<>>, NoField, f) : f \in SysfsSizes}

\* get_num_caches_by_level (src/common/udev.c), from the shared_cpu_map files:
\* every level private, every level shared by all, or L1 private and the rest
\* shared
NumCachesMaps(n) ==
  {[l \in CacheLevels |-> n], [l \in CacheLevels |-> 1],
   [l \in CacheLevels |-> IF l < L2 THEN n ELSE 1]}

\* the four levels in cach_arr order
PerLevel(a, b, c, d) ==
  [l \in CacheLevels |-> IF l = L1i THEN a ELSE IF l = L1d THEN b
                         ELSE IF l = L2 THEN c ELSE d]

size_of_sparc(src) == get_cache_size_sparc(src.files, src.fallback)

size_of_parisc(l, src) ==
  IF l \in {L1i, L1d} THEN get_l1_cache_size_parisc(src.line, src.fallback)
  ELSE src.fallback

CacheResult(c, src, parsed) == [cach |-> c, size_source |-> src, size_parsed |-> parsed]

CacheInfoSparc(leftover, src, nproc) ==
  LET parsed == [l \in CacheLevels |-> size_of_sparc(src[l])]
  IN  CacheResult(get_cache_info_sparc(leftover, parsed, nproc), src, parsed)

CacheInfoParisc(leftover, src, num_caches_by_level) ==
  LET parsed == [l \in CacheLevels |-> size_of_parisc(l, src[l])]
  IN  CacheResult(get_cache_info_parisc(leftover, parsed, num_caches_by_level), src, parsed)

\* Alpha consults nothing and parses nothing
CacheInfoAlpha(leftover) ==
  CacheResult(get_cache_info_alpha(leftover),
              [l \in CacheLevels |-> NotConsulted],
              [l \in CacheLevels |-> LongOf(UNKNOWN_DATA)])

SetCache(r) ==
  /\ cach' = r.cach
  /\ size_source' = r.size_source
  /\ size_parsed' = r.size_parsed
  /\ pc' = "get_topology_info"
  /\ UNCHANGED <<arch, fillVars, uarchVars, topoVars, freqVars, perfVars, strVars>>

GetCacheInfoSparc ==
  /\ pc = "get_cache_info"
  /\ arch = "sparc"
  /\ \E leftover \in LeftoverCach, src \in [CacheLevels -> SparcSizeSources] :
       SetCache(CacheInfoSparc(leftover, src, online))

GetCacheInfoParisc ==
  /\ pc = "get_cache_info"
  /\ arch = "parisc"
  /\ \E leftover \in LeftoverCach, s0 \in PariscL1Sources, s1 \in PariscL1Sources :
       \E s2 \in PariscSysfsSources, s3 \in PariscSysfsSources :
         \E m \in NumCachesMaps(IF online <= 0 THEN 1 ELSE online) :
           SetCache(CacheInfoParisc(leftover, PerLevel(s0, s1, s2, s3), m))

GetCacheInfoAlpha ==
  /\ pc = "get_cache_info"
  /\ arch = "alpha"
  /\ \E leftover \in LeftoverCach : SetCache(CacheInfoAlpha(leftover))

\* before get_cache_info
CacheNotRead ==
  /\ cach = [max_cache_level |-> 0,
             cach_arr |-> [l \in CacheLevels |->
                             [exists |-> FALSE, size |-> 0, num_caches |-> 0]]]
  /\ size_source = [l \in CacheLevels |-> NotConsulted]
  /\ size_parsed = [l \in CacheLevels |-> LongOf(UNKNOWN_DATA)]

InitCache ==
  /\ arch \in Archs
  /\ pc = "get_cache_info"
  /\ online \in OnlineVals
  /\ CacheNotRead
  /\ TopoNotRead
  /\ FreqNotRead
  /\ PerfNotRun
  /\ StrNotAsked

NextCache ==
  \/ GetCacheInfoSparc
  \/ GetCacheInfoParisc
  \/ GetCacheInfoAlpha

\* get_cache_info alone, on every outcome of the size getters
SpecCache == InitCache /\ [][NextCache]_vars

\* a machine with 64 KiB L1 caches, a 32 KiB sysfs-reported L2 and no L3
PlainCache(a, nproc) ==
  LET zero == [size |-> 0, num_caches |-> 0]
      dt   == SizeSource([NoDt EXCEPT ![1] = <<0, 1, 0, 0>>], NoField, LongOf(UNKNOWN_DATA))
      line == SizeSource(<<>>, Field("64 KB"), LongOf(UNKNOWN_DATA))
      l2s  == SizeSource(NoDt, NoField, LongOf(32768))
      l2p  == SizeSource(<<>>, NoField, LongOf(32768))
      l3s  == SizeSource(NoDt, NoField, LongOf(UNKNOWN_DATA))
      l3p  == SizeSource(<<>>, NoField, LongOf(UNKNOWN_DATA))
  IN  IF a = "alpha" THEN CacheInfoAlpha(zero)
      ELSE IF a = "sparc" THEN CacheInfoSparc(zero, PerLevel(dt, dt, l2s, l3s), nproc)
      ELSE CacheInfoParisc(zero, PerLevel(line, line, l2p, l3p),
                           [l \in CacheLevels |-> IF nproc <= 0 THEN 1 ELSE nproc])

\* the state get_cache_info leaves on such a machine
CacheIsPlain ==
  LET r == PlainCache(arch, online)
  IN  /\ cach = r.cach
      /\ size_source = r.size_source
      /\ size_parsed = r.size_parsed

-----------------------------------------------------------------------------
\* get_topology_info as a step of get_cpu_info

\* the first k files are read (arr holds their values); read k fails, and the
\* cells from k on keep what the unwritten allocation held (arr again)
ReadsOf(arr, k, total_cores) ==
  [i \in 0 .. total_cores - 1 |-> IF i < k THEN ReadOk(arr[i]) ELSE ReadFail]

\* what an allocated and not yet written int cell may hold
LeftoverVals == {0, 1}

\* core_ids[] is overwritten in full when its fill fails (sparc.c:99,
\* parisc.c:86), wherever it fails: the fill fails at the first file or not at
\* all, and the unwritten cells are taken as 0
CoreFailAt(total_cores) == {0, total_cores}

CoreArrays(total_cores, k) ==
  {a \in [0 .. total_cores - 1 -> CoreIdVals] :
     \A i \in 0 .. total_cores - 1 : i >= k => a[i] = 0}

\* package_ids[] after a fill that read k files
PackageArrays(total_cores, k) ==
  {a \in [0 .. total_cores - 1 -> PkgIdVals] :
     \A i \in 0 .. total_cores - 1 : i >= k => a[i] \in LeftoverVals}

\* get_num_sockets_package_cpus (src/common/udev.c): UNKNOWN_DATA, or the number
\* of distinct package_cpus bitmaps among the total_cores processors
NumSocketsPackageCpus(total_cores) == {UNKNOWN_DATA} \cup (1 .. total_cores)

\* the helper is called only when fill_package_ids_from_sys fails (parisc.c:89-92)
NumSocketsCalls(package_mem, total_cores, preads) ==
  IF fill_package_ids_from_sys(package_mem, total_cores, preads).status
  THEN {UNKNOWN_DATA} ELSE NumSocketsPackageCpus(total_cores)

SetTopo(r, creads, preads) ==
  /\ topo' = r.topo
  /\ core_ids' = r.core_ids
  /\ package_ids' = r.package_ids
  /\ core_ids_ok' = r.core_ids_ok
  /\ package_ids_ok' = r.package_ids_ok
  /\ unique_pairs' = r.unique_pairs
  /\ core_reads' = creads
  /\ package_reads' = preads
  /\ pc' = "get_frequency_info"
  /\ UNCHANGED <<arch, fillVars, uarchVars, online, freqVars, cacheVars, perfVars, strVars>>

GetTopologyInfoSparc ==
  /\ pc = "get_topology_info"
  /\ arch = "sparc"
  /\ LET n == IF online = -1 THEN 1 ELSE online
     IN  \E kc \in CoreFailAt(n), kp \in 0 .. n :
           \E carr \in CoreArrays(n, kc), parr \in PackageArrays(n, kp) :
             SetTopo(get_topology_info_sparc(online, carr, ReadsOf(carr, kc, n),
                                             parr, ReadsOf(parr, kp, n)),
                     ReadsOf(carr, kc, n), ReadsOf(parr, kp, n))

GetTopologyInfoParisc ==
  /\ pc = "get_topology_info"
  /\ arch = "parisc"
  /\ LET n == IF online = -1 THEN 1 ELSE online
     IN  \E kc \in CoreFailAt(n), kp \in 0 .. n :
           \E carr \in CoreArrays(n, kc), parr \in PackageArrays(n, kp) :
           \E ns \in NumSocketsCalls(parr, n, ReadsOf(parr, kp, n)) :
             SetTopo(get_topology_info_parisc(online, carr, ReadsOf(carr, kc, n),
                                              parr, ReadsOf(parr, kp, n), ns),
                     ReadsOf(carr, kc, n), ReadsOf(parr, kp, n))

GetTopologyInfoAlpha ==
  /\ pc = "get_topology_info"
  /\ arch = "alpha"
  /\ SetTopo(get_topology_info_alpha(online), <<>>, <<>>)

InitTopo ==
  /\ arch \in Archs
  /\ pc = "get_topology_info"
  /\ online \in OnlineVals
  /\ CacheIsPlain
  /\ TopoNotRead
  /\ FreqNotRead
  /\ PerfNotRun
  /\ StrNotAsked

NextTopo ==
  \/ GetTopologyInfoSparc
  \/ GetTopologyInfoParisc
  \/ GetTopologyInfoAlpha

\* get_topology_info alone, on every outcome of sysconf and of the id reads
SpecTopo == InitTopo /\ [][NextTopo]_vars

-----------------------------------------------------------------------------
\* get_frequency_info as a step of get_cpu_info

\* the topology of a machine whose id files are all readable: nproc
\* processors, core ids 0 .. nproc - 1, one package
PlainTopology(a, nproc) ==
  LET n == IF nproc <= 0 THEN 1 ELSE nproc
      creads == [i \in 0 .. n - 1 |-> ReadOk(i)]
      preads == [i \in 0 .. n - 1 |-> ReadOk(0)]
  IN  IF a = "alpha" THEN get_topology_info_alpha(nproc)
      ELSE IF a = "sparc"
           THEN get_topology_info_sparc(nproc, AllZero(n), creads, AllZero(n), preads)
           ELSE get_topology_info_parisc(nproc, AllZero(n), creads, AllZero(n), preads,
                                         UNKNOWN_DATA)

\* the state get_topology_info leaves on such a machine
TopoIsPlain ==
  LET r == PlainTopology(arch, online)
      n == r.topo.total_cores
  IN  /\ topo = r.topo
      /\ core_ids = r.core_ids
      /\ package_ids = r.package_ids
      /\ core_ids_ok = r.core_ids_ok
      /\ package_ids_ok = r.package_ids_ok
      /\ unique_pairs = r.unique_pairs
      /\ core_reads = IF arch = "alpha" THEN <<>> ELSE [i \in 0 .. n - 1 |-> ReadOk(i)]
      /\ package_reads = IF arch = "alpha" THEN <<>> ELSE [i \in 0 .. n - 1 |-> ReadOk(0)]

FreqFields(texts) == {NoField} \cup {Field(t) : t \in texts}

SetFreq(f, maxf, minf, fld, plain) ==
  /\ freq' = f
  /\ max_file' = maxf
  /\ min_file' = minf
  /\ hz_field' = fld
  /\ hz_field_plain' = plain
  /\ pc' = "measure_peak_performance_f32"
  /\ UNCHANGED <<arch, fillVars, uarchVars, topoVars, cacheVars, perfVars, strVars>>

GetFrequencyInfoSparc ==
  /\ pc = "get_frequency_info"
  /\ arch = "sparc"
  /\ \E maxf \in FreqFileVals, minf \in FreqFileVals, fld \in FreqFields(SparcClkTexts) :
       SetFreq(get_frequency_info(maxf, minf, get_frequency_from_cpuinfo_sparc(fld)),
               maxf, minf, fld, NoField)

GetFrequencyInfoParisc ==
  /\ pc = "get_frequency_info"
  /\ arch = "parisc"
  /\ \E maxf \in FreqFileVals, minf \in FreqFileVals, fld \in FreqFields(PariscMhzTexts) :
       SetFreq(get_frequency_info(maxf, minf, get_frequency_from_cpuinfo_parisc(fld)),
               maxf, minf, fld, NoField)

\* the second lookup matches a prefix of the first key, so a line the first
\* lookup finds is found by the second too; only the result of the lookups made
\* is recorded
GetFrequencyInfoAlpha ==
  /\ pc = "get_frequency_info"
  /\ arch = "alpha"
  /\ \E maxf \in FreqFileVals, minf \in FreqFileVals :
       \E fld \in FreqFields(AlphaHzTabTexts), plain \in FreqFields(AlphaHzPlainTexts) :
         /\ fld.present => plain = NoField
         /\ SetFreq(get_frequency_info_alpha(maxf, minf,
                                             get_frequency_from_cpuinfo_alpha(fld, plain)),
                    maxf, minf, fld, plain)

InitFreq ==
  /\ arch \in Archs
  /\ pc = "get_frequency_info"
  /\ online \in OnlineVals
  /\ CacheIsPlain
  /\ TopoIsPlain
  /\ FreqNotRead
  /\ PerfNotRun
  /\ StrNotAsked

NextFreq ==
  \/ GetFrequencyInfoSparc
  \/ GetFrequencyInfoParisc
  \/ GetFrequencyInfoAlpha

\* get_frequency_info alone, on every content of the sysfs files and of the
\* /proc/cpuinfo field
SpecFreq == InitFreq /\ [][NextFreq]_vars

-----------------------------------------------------------------------------
\* The performance estimator as steps of get_cpu_info

\* largest number of clock samples one kernel run takes in the model
MaxSamples == 3

\* a clock step of one day between two readings, in milliseconds
DayMs == 86400000

\* gettimeofday at a sample: failure, or t1 - t0 in milliseconds: no advance,
\* the target just reached, a jump of a day
ClockOutcomes(target) ==
  {[ok |-> FALSE, elapsed_ms |-> 0]}
  \cup {[ok |-> TRUE, elapsed_ms |-> e] :
          e \in {0, IF target.more THEN target.ms + 1 ELSE target.ms, DayMs}}

\* iters++ until (iters & 0x3FF) == 0
next_sample(n) == ((n \div SampleEvery) + 1) * SampleEvery

\* gettimeofday(...) != 0, as the measurement saw it
clock_call(ok) == IF ok THEN "ok" ELSE "failed"

\* a sample that turns a failed clock reading into a zero-length interval
kernel_sample_zero_elapsed(n, ops_per_iter, clock, target, t) ==
  IF ~clock.ok \/ reached_target(clock.elapsed_ms, target)
  THEN [running |-> FALSE, ret |-> Int64(n * ops_per_iter)]
  ELSE [running |-> TRUE, ret |-> Int64(-1)]

\* a sample that goes on iterating when the clock reading fails
kernel_sample_past_failure(n, ops_per_iter, clock, target, t) ==
  IF clock.ok /\ reached_target(clock.elapsed_ms, target)
  THEN [running |-> FALSE, ret |-> kernel_total(n, ops_per_iter, clock.elapsed_ms, t)]
  ELSE [running |-> TRUE, ret |-> Int64(-1)]

\* one pass of for(;;) up to and including the next clock sample: ret is the
\* value returned (break leads to return -1), running = the loop goes on
kernel_sample(n, ops_per_iter, clock, target, t) ==
  IF ~clock.ok THEN [running |-> FALSE, ret |-> Int64(-1)]
  ELSE IF reached_target(clock.elapsed_ms, target)
       THEN [running |-> FALSE, ret |-> kernel_total(n, ops_per_iter, clock.elapsed_ms, t)]
       ELSE [running |-> TRUE, ret |-> Int64(-1)]

\* measure_peak_performance_f32 up to the start of the loop
MeasurePeakPerformanceF32 ==
  /\ pc = "measure_peak_performance_f32"
  /\ IF ~(env.accurate_pp \/ env_is_one(env.flops))
     THEN /\ measured' = Int64(-1)
          /\ pc' = "select_peak_performance"
          /\ UNCHANGED <<target_seconds, iters, f32_clock>>
     ELSE /\ target_seconds' = f32_target_seconds(arch, env)
          /\ iters' = 0
          /\ \E t0_ok \in BOOLEAN :
               /\ f32_clock' = clock_call(t0_ok)
               /\ IF t0_ok
                  THEN pc' = "f32_kernel" /\ UNCHANGED measured
                  ELSE pc' = "select_peak_performance" /\ measured' = Int64(-1)
  /\ sample' = NoSample
  /\ UNCHANGED <<arch, fillVars, uarchVars, topoVars, freqVars, cacheVars, strVars, cpu_name, env, peak_performance,
                 vis_ops_performance>>

\* the 32-flop loop body, 1024 times, and the sample that follows, the clock
\* reading drawn from Clocks
F32KernelOn(Clocks) ==
  /\ pc = "f32_kernel"
  /\ iters < SampleEvery * MaxSamples
  /\ iters' = next_sample(iters)
  /\ \E clock \in Clocks :
       LET r == kernel_sample(iters', 32, clock, target_seconds, topo)
       IN  /\ f32_clock' = clock_call(clock.ok)
           /\ sample' = clock
           /\ IF r.running THEN UNCHANGED <<pc, measured>>
              ELSE pc' = "select_peak_performance" /\ measured' = r.ret
  /\ UNCHANGED <<arch, fillVars, uarchVars, topoVars, freqVars, cacheVars, strVars, cpu_name, env, target_seconds,
                 peak_performance, vis_ops_performance>>

F32Kernel == F32KernelOn(ClockOutcomes(target_seconds))

\* if(measured > 0) ... else get_peak_performance(cpu, topo, get_freq(freq));
\* sparc.c stops here, alpha.c and parisc.c go on to the integer kernel
SelectPeakPerformance ==
  /\ pc = "select_peak_performance"
  /\ peak_performance' =
       select_peak_performance(measured,
         get_peak_performance_estimate(arch, cpu_name, topo, get_freq(freq)))
  /\ pc' = IF arch = "sparc" THEN "done" ELSE "measure_int_ops_throughput"
  /\ UNCHANGED <<arch, fillVars, uarchVars, topoVars, freqVars, cacheVars, strVars, cpu_name, env, target_seconds,
                 iters, measured, f32_clock, sample, vis_ops_performance>>

\* measure_int_ops_throughput up to the start of the loop
MeasureIntOpsThroughput ==
  /\ pc = "measure_int_ops_throughput"
  /\ IF ~env.accurate_pp_with_ops
     THEN /\ vis_ops_performance' = Int64(-1)
          /\ pc' = "done"
          /\ UNCHANGED iters
     ELSE /\ iters' = 0
          /\ \E t0_ok \in BOOLEAN :
               IF t0_ok
               THEN pc' = "int_kernel" /\ UNCHANGED vis_ops_performance
               ELSE pc' = "done" /\ vis_ops_performance' = Int64(-1)
  /\ sample' = NoSample
  /\ UNCHANGED <<arch, fillVars, uarchVars, topoVars, freqVars, cacheVars, strVars, cpu_name, env, target_seconds,
                 measured, f32_clock, peak_performance>>

\* the 24-op loop body, 1024 times, and the sample that follows: elapsed >= 2.0
IntKernelOn(Clocks) ==
  /\ pc = "int_kernel"
  /\ iters < SampleEvery * MaxSamples
  /\ iters' = next_sample(iters)
  /\ \E clock \in Clocks :
       LET r == kernel_sample(iters', 24, clock, Seconds(2000), topo)
       IN  /\ sample' = clock
           /\ IF r.running THEN UNCHANGED <<pc, vis_ops_performance>>
              ELSE pc' = "done" /\ vis_ops_performance' = r.ret
  /\ UNCHANGED <<arch, fillVars, uarchVars, topoVars, freqVars, cacheVars, strVars, cpu_name, env, target_seconds,
                 measured, f32_clock, peak_performance>>

IntKernel == IntKernelOn(ClockOutcomes(Seconds(2000)))

\* the state get_topology_info leaves when every id file is read: core ids
\* 0 .. n - 1, package ids pids
TopoOfReads(pids) ==
  LET n == IF online <= 0 THEN 1 ELSE online
      creads == [i \in 0 .. n - 1 |-> ReadOk(i)]
      preads == [i \in 0 .. n - 1 |-> ReadOk(pids[i])]
      r == IF arch = "sparc"
           THEN get_topology_info_sparc(online, AllZero(n), creads, AllZero(n), preads)
           ELSE get_topology_info_parisc(online, AllZero(n), creads, AllZero(n), preads,
                                         UNKNOWN_DATA)
  IN  /\ topo = r.topo
      /\ core_ids = r.core_ids
      /\ package_ids = r.package_ids
      /\ core_ids_ok = r.core_ids_ok
      /\ package_ids_ok = r.package_ids_ok
      /\ unique_pairs = r.unique_pairs
      /\ core_reads = creads
      /\ package_reads = preads

\* one package, or one package per processor
TopoIsSimple ==
  IF arch = "alpha" THEN TopoIsPlain
  ELSE \E pids \in {AllZero(IF online <= 0 THEN 1 ELSE online),
                    Identity(IF online <= 0 THEN 1 ELSE online)} : TopoOfReads(pids)

\* the state get_frequency_info leaves: no source, a sysfs value, or a
\* /proc/cpuinfo field alone
FreqIsRead ==
  \E src \in {<<UNKNOWN_DATA, NoField>>, <<10000, NoField>>,
              <<UNKNOWN_DATA, Field(IF arch = "sparc" THEN "000000003b9aca00"
                                    ELSE IF arch = "parisc" THEN "616.54"
                                    ELSE "50000000")>>} :
    /\ max_file = src[1]
    /\ min_file = UNKNOWN_DATA
    /\ hz_field = src[2]
    /\ hz_field_plain = NoField
    /\ freq = IF arch = "sparc"
              THEN get_frequency_info(src[1], UNKNOWN_DATA,
                                      get_frequency_from_cpuinfo_sparc(src[2]))
              ELSE IF arch = "parisc"
              THEN get_frequency_info(src[1], UNKNOWN_DATA,
                                      get_frequency_from_cpuinfo_parisc(src[2]))
              ELSE get_frequency_info_alpha(src[1], UNKNOWN_DATA,
                                            get_frequency_from_cpuinfo_alpha(src[2], NoField))

\* what get_cpu_name_from_cpuinfo returned
CpuNames(a) ==
  IF a = "parisc"
  THEN {NoField, Field("PA8700 (PCX-W2)"), Field("PA7300LC (PCX-L2)"),
        Field("9000/785 PA-8900")}
  ELSE IF a = "sparc" THEN {Field("TI UltraSparc IIIi (Jalapeno)")}
  ELSE {Field("EV56")}

\* CPUFETCH_MEASURE_SP_FLOPS_SECS texts
SecsTexts == {"0.05", "0.051", "5", "29.999", "30", "30.5", "fast"}

\* accurate_pp(), accurate_pp_with_ops() and the two environment variables:
\* every duration text with CPUFETCH_MEASURE_SP_FLOPS=1 and the integer
\* kernel off, one duration text for every other setting
Envs ==
  {[accurate_pp |-> a, accurate_pp_with_ops |-> FALSE, flops |-> Field("1"), secs |-> d] :
     a \in BOOLEAN, d \in {NoField} \cup {Field(t) : t \in SecsTexts}}
  \cup {[accurate_pp |-> a, accurate_pp_with_ops |-> o, flops |-> f, secs |-> d] :
          a \in BOOLEAN, o \in BOOLEAN, f \in {NoField, Field("0"), Field("1")},
          d \in {NoField, Field("5")}}

InitPerf ==
  /\ arch \in Archs
  /\ pc = "measure_peak_performance_f32"
  /\ online \in OnlineVals
  /\ CacheIsPlain
  /\ TopoIsSimple
  /\ FreqIsRead
  /\ cpu_name \in CpuNames(arch)
  /\ env \in Envs
  /\ target_seconds = Seconds(0)
  /\ iters = 0
  /\ measured = Int64(0)
  /\ f32_clock = "unread"
  /\ sample = NoSample
  /\ peak_performance = Int64(0)
  /\ vis_ops_performance = Int64(0)
  /\ StrNotAsked

NextPerf ==
  \/ MeasurePeakPerformanceF32
  \/ F32Kernel
  \/ SelectPeakPerformance
  \/ MeasureIntOpsThroughput
  \/ IntKernel

\* the performance estimator, on every setting of the toggles and the
\* environment and every behaviour of the clock
SpecPerf == InitPerf /\ [][NextPerf]_vars

-----------------------------------------------------------------------------
\* The performance estimator with a clock that keeps advancing

\* the reading at the sample after n iterations, when every 1024 iterations
\* take at least a MaxSamples-th of the target: failure, or an elapsed time
\* not below n / 1024 such shares
AdvancingClock(n, target) ==
  LET least == (n \div SampleEvery) * ((target.ms \div MaxSamples) + 1)
  IN  {[ok |-> FALSE, elapsed_ms |-> 0]}
      \cup {[ok |-> TRUE, elapsed_ms |-> e] :
              e \in {x \in {least, IF target.more THEN target.ms + 1 ELSE target.ms,
                            DayMs} : x >= least}}

F32KernelClockAdvancing ==
  F32KernelOn(AdvancingClock(next_sample(iters), target_seconds))

IntKernelClockAdvancing ==
  IntKernelOn(AdvancingClock(next_sample(iters), Seconds(2000)))

\* one machine per backend and processor count, a scaling-driver frequency,
\* every setting of the toggles and the environment
InitPerfLive ==
  /\ arch \in Archs
  /\ pc = "measure_peak_performance_f32"
  /\ online \in {1, MaxN}
  /\ CacheIsPlain
  /\ TopoIsPlain
  /\ FreqIsRead /\ max_file = 10000
  /\ cpu_name = (IF arch = "parisc" THEN Field("PA8700 (PCX-W2)")
                 ELSE IF arch = "sparc" THEN Field("TI UltraSparc IIIi (Jalapeno)")
                 ELSE Field("EV56"))
  /\ env \in Envs
  /\ target_seconds = Seconds(0)
  /\ iters = 0
  /\ measured = Int64(0)
  /\ f32_clock = "unread"
  /\ sample = NoSample
  /\ peak_performance = Int64(0)
  /\ vis_ops_performance = Int64(0)
  /\ StrNotAsked

NextPerfLive ==
  \/ MeasurePeakPerformanceF32
  \/ F32KernelClockAdvancing
  \/ SelectPeakPerformance
  \/ MeasureIntOpsThroughput
  \/ IntKernelClockAdvancing

\* get_cpu_info runs on one thread, which executes the step it is at: a
\* kernel in its loop makes its next pass
SpecPerfLive == InitPerfLive /\ [][NextPerfLive]_vars /\ WF_vars(NextPerfLive)

-----------------------------------------------------------------------------
\* The cache string accessor (src/common/cpu.c), called on its own

\* sizes in bytes, from an absent level to the largest int32_t: below and at
\* the KB/MB boundary, halfway between two printed values, and large enough
\* for a total of 2^32 bytes and more
CacheSizes ==
  {0, 1, 512, 1024, 1536, 16384, 32768, 65536, 1024512, 1025536, 1048575,
   1048576, 1572864, 2097152, 8388608, 33554432, 67108864, 1073741824, 2147483647}

\* instance counts: none, one, a few, one per core of a large machine
NumCaches == {-1, 0, 1, 2, 3, 4, 128, 255}

GetStrCache ==
  /\ pc = "get_str_cache"
  /\ string' = get_str_cache(cache_size, num_caches)
  /\ pc' = "done"
  /\ UNCHANGED <<arch, fillVars, uarchVars, topoVars, freqVars, cacheVars, perfVars, cache_size, num_caches, dual_socket>>

\* an int64_t from its limbs, the highest first
Limbs(l3, l2, l1, l0) == [neg |-> FALSE, mag |-> <<l0, l1, l2, l3>>]

Negative(x) == [x EXCEPT !.neg = TRUE]

\* throughputs in operations per second: the sentinel, other negative values,
\* values around each power of 1000, values halfway between two printed
\* ones, and values of 10^16 and more up to the largest int64_t
Throughputs ==
  {Int64(-1), Int64(-5), Int64(-2000000), Int64(0), Int64(1), Int64(999),
   Int64(1000), Int64(1005), Int64(1234), Int64(999994), Int64(999995),
   Int64(1000000), Int64(500000), Int64(1125000), Int64(999999999),
   Int64(1000000000), Int64(1234000000), Limbs(0, 0, 999999, 999999),
   Limbs(0, 1, 0, 0), Limbs(0, 2, 468000, 0), Limbs(0, 1000, 0, 0),
   Limbs(0, 10000, 0, 0), Limbs(0, 100000, 0, 0),
   Limbs(9, 223372, 36854, 775807), Negative(Limbs(9, 223372, 36854, 775807))}

GetStrPeakPerformance ==
  /\ pc = "get_str_peak_performance"
  /\ \E tie_up \in BOOLEAN : string' = get_str_peak_performance(peak_performance, tie_up)
  /\ pc' = "returned_peak_performance"
  /\ UNCHANGED <<arch, fillVars, uarchVars, topoVars, freqVars, cacheVars, perfVars, cache_size, num_caches, dual_socket>>

GetStrOps ==
  /\ pc = "get_str_ops"
  /\ \E tie_up \in BOOLEAN : string' = get_str_ops(vis_ops_performance, tie_up)
  /\ pc' = "returned_ops"
  /\ UNCHANGED <<arch, fillVars, uarchVars, topoVars, freqVars, cacheVars, perfVars, cache_size, num_caches, dual_socket>>

\* frequencies in MHz: the sentinel, another negative value, values around
\* the MHz/GHz boundary, the ends of the band, and five- and six-digit values
StrFreqVals == {UNKNOWN_DATA, -5, 0, 1, 99, 100, 617, 999, 1000, 1005, 2500, 9999,
                10000, 99999, 100000}

GetStrFreq ==
  /\ pc = "get_str_freq"
  /\ string' = get_str_freq(freq)
  /\ pc' = "returned_freq"
  /\ UNCHANGED <<arch, fillVars, uarchVars, topoVars, freqVars, cacheVars, perfVars, cache_size, num_caches, dual_socket>>

\* one accessor is called, on arguments drawn for it
InitStr ==
  /\ arch \in Archs
  /\ pc \in {"get_str_cache", "get_str_peak_performance", "get_str_ops", "get_str_freq"}
  /\ online \in OnlineVals
  /\ CacheIsPlain
  /\ TopoIsPlain
  /\ max_file = UNKNOWN_DATA
  /\ min_file = UNKNOWN_DATA
  /\ hz_field = NoField
  /\ hz_field_plain = NoField
  /\ IF pc = "get_str_freq"
     THEN freq \in {[measured |-> m, max |-> v, base |-> UNKNOWN_DATA] :
                      m \in BOOLEAN, v \in StrFreqVals}
     ELSE freq = NoFrequency
  /\ cpu_name = NoField
  /\ env = NoEnv
  /\ target_seconds = Seconds(0)
  /\ iters = 0
  /\ measured = Int64(0)
  /\ f32_clock = "unread"
  /\ sample = NoSample
  /\ IF pc = "get_str_peak_performance"
     THEN peak_performance \in Throughputs
     ELSE peak_performance = Int64(0)
  /\ IF pc = "get_str_ops"
     THEN vis_ops_performance \in Throughputs
     ELSE vis_ops_performance = Int64(0)
  /\ IF pc = "get_str_cache"
     THEN cache_size \in CacheSizes /\ num_caches \in NumCaches
     ELSE cache_size = 0 /\ num_caches = 0
  /\ dual_socket = FALSE
  /\ string = NoString
  /\ UarchNotRead
  /\ FillNotRun

NextStr ==
  \/ GetStrCache
  \/ GetStrPeakPerformance
  \/ GetStrOps
  \/ GetStrFreq

\* get_str_cache on every size and count drawn
SpecStr == InitStr /\ [][NextStr]_vars

-----------------------------------------------------------------------------
\* get_str_topology on the topology get_topology_info has built

GetStrTopology ==
  /\ pc = "get_frequency_info"
  /\ string' = get_str_topology(topo, dual_socket)
  /\ pc' = "returned_topology"
  /\ UNCHANGED <<arch, fillVars, uarchVars, topoVars, freqVars, cacheVars, perfVars, cache_size, num_caches,
                 dual_socket>>

InitTopoStr ==
  /\ arch \in Archs
  /\ pc = "get_topology_info"
  /\ online \in OnlineVals
  /\ CacheIsPlain
  /\ TopoNotRead
  /\ FreqNotRead
  /\ PerfNotRun
  /\ cache_size = 0
  /\ num_caches = 0
  /\ dual_socket \in BOOLEAN
  /\ string = NoString
  /\ UarchNotRead
  /\ FillNotRun

NextTopoStr ==
  \/ GetTopologyInfoSparc
  \/ GetTopologyInfoParisc
  \/ GetTopologyInfoAlpha
  \/ GetStrTopology

\* the topology reconstructor followed by the topology accessor
SpecTopoStr == InitTopoStr /\ [][NextTopoStr]_vars

-----------------------------------------------------------------------------
\* get_uarch as a step of get_cpu_info

\* texts a name field may hold, by key: a value, a pmu name with and without
\* a mapping, the empty rest of a line
NameTexts(key) ==
  IF key = "pmu\t\t: " THEN {"", "ultra3i", "ultra3", "ultra4+", "niagara2"}
  ELSE IF key = "MMU Type\t\t: " THEN {"", "Cheetah+"}
  ELSE IF key = "cpu\t\t: " THEN {"", "PA8900 (PCX-U+)"}
  ELSE {"", "EV56"}

GetUarchAlpha ==
  /\ pc = "get_uarch" /\ arch = "alpha"
  /\ uarch' = get_uarch_alpha(cpuinfo)
  /\ pc' = "get_cache_info"
  /\ UNCHANGED <<arch, fillVars, cpuinfo, topoVars, freqVars, cacheVars, perfVars, strVars>>

GetUarchSparc ==
  /\ pc = "get_uarch" /\ arch = "sparc"
  /\ uarch' = get_uarch_sparc(cpuinfo)
  /\ pc' = "get_cache_info"
  /\ UNCHANGED <<arch, fillVars, cpuinfo, topoVars, freqVars, cacheVars, perfVars, strVars>>

GetUarchParisc ==
  /\ pc = "get_uarch" /\ arch = "parisc"
  /\ uarch' = get_uarch_parisc(cpuinfo)
  /\ pc' = "get_cache_info"
  /\ UNCHANGED <<arch, fillVars, cpuinfo, topoVars, freqVars, cacheVars, perfVars, strVars>>

InitUarch ==
  /\ arch \in Archs
  /\ pc = "get_uarch"
  /\ online \in OnlineVals
  /\ CacheNotRead
  /\ TopoNotRead
  /\ FreqNotRead
  /\ PerfNotRun
  /\ cache_size = 0
  /\ num_caches = 0
  /\ dual_socket = FALSE
  /\ string = NoString
  /\ cpuinfo \in {ci \in [AllNameKeys -> {NoField} \cup {Field(t) : t \in {"", "ultra3i",
                     "ultra3", "ultra4+", "niagara2", "Cheetah+", "PA8900 (PCX-U+)", "EV56"}}] :
                    \A k \in AllNameKeys :
                      IF k \in NameKeys(arch)
                      THEN ci[k].present => ci[k].text \in NameTexts(k)
                      ELSE ~ci[k].present}
  /\ uarch = NoUarch
  /\ FillNotRun

NextUarch ==
  \/ GetUarchAlpha
  \/ GetUarchSparc
  \/ GetUarchParisc

\* get_uarch alone, on every combination of the name fields
SpecUarch == InitUarch /\ [][NextUarch]_vars

-----------------------------------------------------------------------------
\* get_cache_info followed by get_topology_info on SPARC, as get_cpu_info
\* calls them

InitCacheTopo ==
  /\ arch = "sparc"
  /\ pc = "get_cache_info"
  /\ online \in OnlineVals
  /\ CacheNotRead
  /\ TopoNotRead
  /\ FreqNotRead
  /\ PerfNotRun
  /\ StrNotAsked

\* each level's property either absent everywhere or 64 KiB under the first
\* device-tree base
SparcPresentOrAbsent ==
  {SizeSource(NoDt, NoField, LongOf(UNKNOWN_DATA)),
   SizeSource([NoDt EXCEPT ![1] = <<0, 1, 0, 0>>], NoField, LongOf(UNKNOWN_DATA))}

\* get_cache_info of sparc.c on every combination of present and absent levels
GetCacheInfoSparcLevels ==
  /\ pc = "get_cache_info"
  /\ arch = "sparc"
  /\ \E leftover \in LeftoverCach, src \in [CacheLevels -> SparcPresentOrAbsent] :
       SetCache(CacheInfoSparc(leftover, src, online))

NextCacheTopo ==
  \/ GetCacheInfoSparcLevels
  \/ GetTopologyInfoSparc

SpecCacheTopo == InitCacheTopo /\ [][NextCacheTopo]_vars

-----------------------------------------------------------------------------
\* get_topology_info of sparc.c and parisc.c read by read

\* a read of cpu<i>/topology/<file>
ReadOf(file, i) == [file |-> file, cpu |-> i]

\* fill_core_ids_from_sys, one pass of its loop; when it returns false
\* get_topology_info overwrites core_ids[] with 0 .. N-1
FillCoreIdsPass ==
  /\ pc = "fill_core_ids_from_sys"
  /\ LET r == fill_array_pass(core_ids, topo.total_cores, core_reads, fill_i)
     IN  /\ read_log' = IF fill_i < topo.total_cores
                        THEN Append(read_log, ReadOf("core_id", fill_i))
                        ELSE read_log
         /\ IF r.returned
            THEN /\ core_ids_ok' = r.status
                 /\ core_ids' = IF r.status THEN r.ids ELSE Identity(topo.total_cores)
                 /\ fill_i' = 0
                 /\ pc' = "fill_package_ids_from_sys"
            ELSE /\ core_ids' = r.ids
                 /\ fill_i' = r.i
                 /\ UNCHANGED <<core_ids_ok, pc>>
  /\ UNCHANGED <<arch, uarchVars, topo, package_ids, package_ids_ok, unique_pairs, online,
                 core_reads, package_reads, freqVars, cacheVars, perfVars, strVars>>

\* fill_package_ids_from_sys, one pass of the loop of fill_array_from_sys; the
\* range check follows the last pass
FillPackageIdsPass ==
  /\ pc = "fill_package_ids_from_sys"
  /\ LET r == fill_array_pass(package_ids, topo.total_cores, package_reads, fill_i)
     IN  /\ read_log' = IF fill_i < topo.total_cores
                        THEN Append(read_log, ReadOf("physical_package_id", fill_i))
                        ELSE read_log
         /\ package_ids' = r.ids
         /\ IF r.returned
            THEN /\ package_ids_ok' = (r.status
                                       /\ package_ids_valid(r.ids, topo.total_cores, 0))
                 /\ fill_i' = 0
                 /\ pc' = "count_sockets_and_pairs"
            ELSE /\ fill_i' = r.i
                 /\ UNCHANGED <<package_ids_ok, pc>>
  /\ UNCHANGED <<arch, uarchVars, topo, core_ids, core_ids_ok, unique_pairs, online,
                 core_reads, package_reads, freqVars, cacheVars, perfVars, strVars>>

\* the rest of get_topology_info: fallbacks, socket count, pair loop, ratios
CountSocketsAndPairs ==
  /\ pc = "count_sockets_and_pairs"
  /\ IF arch = "sparc"
     THEN SetTopo(get_topology_info_sparc(online, core_ids, core_reads,
                                          package_ids, package_reads),
                  core_reads, package_reads)
     ELSE \E ns \in NumSocketsCalls(package_ids, topo.total_cores, package_reads) :
            SetTopo(get_topology_info_parisc(online, core_ids, core_reads,
                                             package_ids, package_reads, ns),
                    core_reads, package_reads)

\* sysconf has answered and the two arrays are allocated; every file either
\* yields a value or fails, the first failure at any index
InitFill ==
  /\ arch \in {"sparc", "parisc"}
  /\ pc = "fill_core_ids_from_sys"
  /\ online \in OnlineVals
  /\ LET n == IF online = -1 THEN 1 ELSE online
     IN  /\ topo = [init_topology_struct EXCEPT !.total_cores = n]
         /\ \E kc \in 0 .. n, kp \in 0 .. n :
              \E carr \in CoreArrays(n, kc), parr \in PackageArrays(n, kp) :
                /\ core_ids = carr
                /\ package_ids = parr
                /\ core_reads = ReadsOf(carr, kc, n)
                /\ package_reads = ReadsOf(parr, kp, n)
  /\ core_ids_ok = FALSE
  /\ package_ids_ok = FALSE
  /\ unique_pairs = 0
  /\ CacheIsPlain
  /\ FreqNotRead
  /\ PerfNotRun
  /\ cache_size = 0
  /\ num_caches = 0
  /\ dual_socket = FALSE
  /\ string = NoString
  /\ UarchNotRead
  /\ read_log = <<>>
  /\ fill_i = 0

NextFill ==
  \/ FillCoreIdsPass
  \/ FillPackageIdsPass
  \/ CountSocketsAndPairs

SpecFill == InitFill /\ [][NextFill]_vars

-----------------------------------------------------------------------------
\* Topology claims (checked under SpecTopo)

TopoDone == pc = "get_frequency_info"

ReadsIds == arch \in {"sparc", "parisc"}

AllPackageRead == \A i \in DOMAIN package_reads : package_reads[i].ok

AllCoreRead == \A i \in DOMAIN core_reads : core_reads[i].ok

\* the package ids present among the N records the OS handed over
PackageRecordIds == {package_reads[i].val : i \in DOMAIN package_reads}

\* C1 as stated: for every N records (every read succeeded), sockets is the
\* number of distinct package ids present among them, and sockets <= N
C1_Original ==
  (TopoDone /\ ReadsIds /\ AllPackageRead /\ AllCoreRead)
    => /\ topo.sockets = Cardinality(PackageRecordIds)
       /\ topo.sockets <= topo.total_cores

\* C1, amended: sockets <= N on every outcome; on SPARC and PA-RISC, when all
\* N package ids are read and lie in [0, N), sockets is the number of distinct
\* package ids present (ids outside [0, N) take the fallback count instead)
C1_SocketsDistinctInRange ==
  TopoDone
    => /\ topo.sockets <= topo.total_cores
       /\ (ReadsIds /\ AllPackageRead
           /\ PackageRecordIds \subseteq 0 .. topo.total_cores - 1)
            => topo.sockets = Cardinality(PackageRecordIds)

\* three records on packages 0 and 2: two sockets, not the range 0..2
C1_Witness ==
  /\ TopoDone /\ arch = "sparc" /\ AllPackageRead /\ topo.total_cores = 3
  /\ PackageRecordIds = {0, 2}
  /\ topo.sockets = 2

\* C2: after get_topology_info, physical_cores * sockets <= N, whatever the
\* reads yielded, with the fallback socket count and with the clamps
C2_PhysicalTimesSockets ==
  TopoDone => topo.physical_cores * topo.sockets <= topo.total_cores

\* package ids unreadable, fallback count above the pairs found: the clamp acts
C2_Witness ==
  /\ TopoDone /\ arch = "parisc" /\ ~package_ids_ok
  /\ unique_pairs < topo.sockets
  /\ topo.physical_cores = 1
  /\ topo.sockets = topo.total_cores /\ topo.total_cores = MaxN

\* C3: on every backend smt_supported equals the integer division
\* logical_cores / physical_cores and is >= 1, for every input of ids
C3_SmtIsRatio ==
  TopoDone
    => /\ topo.smt_supported = topo.logical_cores \div topo.physical_cores
       /\ topo.smt_supported >= 1

\* C4: whatever sysconf and the id reads yield, get_topology_info returns
\* (each behaviour reaches TopoDone) a topology with sockets >= 1,
\* physical_cores >= 1 and logical_cores >= physical_cores
C4_UsableTopology ==
  TopoDone
    => /\ topo.sockets >= 1
       /\ topo.physical_cores >= 1
       /\ topo.logical_cores >= topo.physical_cores

\* sysconf fails and both id arrays fail to read
C4_Witness ==
  /\ TopoDone /\ arch = "parisc" /\ online = -1
  /\ ~core_ids_ok /\ ~package_ids_ok
  /\ topo.total_cores = 1 /\ topo.sockets = 1

-----------------------------------------------------------------------------
\* Frequency claims (checked under SpecFreq)

FreqDone == pc = "measure_peak_performance_f32"

\* C5: for any present, malformed or absent frequency field, on every backend,
\* the resolver returns UNKNOWN or a value within [100, 10000] MHz
C5_FreqInBand ==
  FreqDone => (freq.max = UNKNOWN_DATA \/ (freq.max >= 100 /\ freq.max <= 10000))

-----------------------------------------------------------------------------
\* Cache claims (checked under SpecCache)

CacheDone == pc = "get_topology_info"

\* C6: after get_cache_info on any backend, each of L1i, L1d, L2, L3 has
\* exists = true if and only if its parsed size is strictly positive
C6_ExistsIffPositive ==
  CacheDone => \A l \in CacheLevels : cach.cach_arr[l].exists <=> size_parsed[l].pos

-----------------------------------------------------------------------------
\* Performance claims (checked under SpecPerf)

\* cpu->peak_performance has been assigned
PeakSelected == pc \in {"measure_int_ops_throughput", "int_kernel", "done"}

MeasurementEnabled == env.accurate_pp \/ env_is_one(env.flops)

\* the model name is one the PA-RISC backend takes for a PA-8xxx
RecognisedPA8 ==
  /\ arch = "parisc"
  /\ cpu_name.present
  /\ \E pat \in {"PA8", "PA-8", "PA 8"} : Contains(cpu_name.text, pat)

\* physical_cores_per_socket * sockets * frequency_MHz * flops_per_cycle: the
\* static estimate in millions of FLOP/s
StaticMega ==
  topo.physical_cores * topo.sockets * freq.max * (IF RecognisedPA8 THEN 2 ELSE 1)

\* an int64 worth m * 10^6, m >= 0
MegaAsInt64(m) == [neg |-> FALSE, mag |-> <<0, m % Million, m \div Million, 0>>]

\* C7: with runtime measurement disabled and the frequency known,
\* peak_performance is exactly physical_cores * sockets * (MHz * 10^6) *
\* flops_per_cycle, flops_per_cycle being 1 except 2 for PA-RISC models
\* recognised as PA-8xxx
C7_StaticEstimateExact ==
  (PeakSelected /\ ~MeasurementEnabled /\ freq.max # UNKNOWN_DATA)
    => peak_performance = MegaAsInt64(StaticMega)

\* a two-socket PA-8700 at 617 MHz, measurement off
C7_Witness ==
  /\ PeakSelected /\ ~MeasurementEnabled
  /\ RecognisedPA8 /\ topo.sockets = 2 /\ freq.max = 617
  /\ peak_performance = MegaAsInt64(2 * 617 * 2)

MeasurementSucceeded == Int64Positive(measured)

\* C8: peak_performance is the runtime measurement whenever that succeeded
\* with a value > 0, otherwise the static estimate, and it is UNKNOWN exactly
\* when there is no successful measurement and the frequency is UNKNOWN
C8_SelectionPolicy ==
  PeakSelected
    => /\ MeasurementSucceeded => peak_performance = measured
       /\ (~MeasurementSucceeded /\ freq.max # UNKNOWN_DATA)
            => peak_performance = MegaAsInt64(StaticMega)
       /\ peak_performance = Int64(-1)
            <=> (~MeasurementSucceeded /\ freq.max = UNKNOWN_DATA)

\* the kernel ran to its target and its total truncated to 0: the static
\* estimate is used
C8_Witness ==
  /\ PeakSelected /\ MeasurementEnabled
  /\ measured = Int64(0) /\ freq.max # UNKNOWN_DATA
  /\ peak_performance = MegaAsInt64(StaticMega)

\* the target is settled once measure_peak_performance_f32 is past its start
TargetSettled == MeasurementEnabled /\ pc # "measure_peak_performance_f32"

\* the override as a number of seconds
OverrideValue == strtod(env.secs.text)

OverrideAboveMin ==
  /\ env.secs.present
  /\ ~OverrideValue.neg
  /\ \/ OverrideValue.ip > 0
     \/ OverrideValue.th > 50
     \/ OverrideValue.th = 50 /\ OverrideValue.more

OverrideAsTarget ==
  [ms |-> OverrideValue.ip * 1000 + OverrideValue.th, more |-> OverrideValue.more]

\* C10 as stated: whenever measurement is enabled the target is the override v
\* if 0.05 s < v <= 30 s, else the 2 s default, on every backend
C10_Original ==
  TargetSettled
    => target_seconds =
         IF OverrideAboveMin
            /\ (OverrideValue.ip < 30
                \/ (OverrideValue.ip = 30 /\ OverrideValue.th = 0 /\ ~OverrideValue.more))
         THEN OverrideAsTarget ELSE Seconds(2000)

\* C10, amended: whenever measurement is enabled, the target is the override v
\* if CPUFETCH_MEASURE_SP_FLOPS begins with 1 and 0.05 s < v < 30 s; else it is
\* the default, 2 s on Alpha and PA-RISC and 0.6 s on SPARC
C10_TargetDuration ==
  TargetSettled
    => target_seconds =
         IF env_is_one(env.flops) /\ OverrideAboveMin /\ OverrideValue.ip < 30
         THEN OverrideAsTarget
         ELSE IF arch = "sparc" THEN Seconds(600) ELSE Seconds(2000)

\* an override of 29.999 s taken up by a kernel that then runs
C10_Witness ==
  /\ pc = "f32_kernel" /\ iters = SampleEvery
  /\ env.secs = Field("29.999")
  /\ target_seconds = Seconds(29999)

-----------------------------------------------------------------------------
\* Cache string claim (checked under SpecStr)

StrDone == pc = "done" /\ string # NoString

\* the formatted value of a byte count
Formatted(bytes) == get_value_as_smallest_unit(bytes).str

\* C9: get_str_cache yields the single formatted size when the instance count
\* is 1; when the count is above 1 it yields "X (Y Total)" with X the formatted
\* per-instance size and Y the formatted product size * count, the product
\* taken on the byte counts, before any scaling to a unit
C9_CacheString ==
  StrDone =>
    /\ num_caches = 1 => string = Formatted(Uint32(cache_size))
    /\ num_caches > 1 =>
         string = Formatted(Uint32(cache_size)) \o " ("
                    \o Formatted(TimesExact(Uint32(cache_size), num_caches)) \o " Total)"

\* the product size * count is below 2^32
TotalFitsUint32 == TimesExact(Uint32(cache_size), num_caches)[1] < 4096

-----------------------------------------------------------------------------
\* Clock failure claim (checked under SpecPerf)

\* gettimeofday failed at the start of the floating-point kernel or at one of
\* its samples
F32ClockFailed == f32_clock = "failed"

\* C11: when the clock fails at the start of the floating-point measurement
\* or at a later sample, the measurement returns UNKNOWN, get_cpu_info goes on
\* to the selection and beyond, and peak_performance becomes the static
\* estimate, UNKNOWN only if the frequency is UNKNOWN
C11_ClockFailureFallsBack ==
  F32ClockFailed
    => /\ measured = Int64(-1)
       /\ pc = "select_peak_performance" \/ PeakSelected
       /\ PeakSelected =>
            /\ freq.max # UNKNOWN_DATA => peak_performance = MegaAsInt64(StaticMega)
            /\ freq.max = UNKNOWN_DATA <=> peak_performance = Int64(-1)

\* the clock failed at the third sample of a kernel on a machine of known
\* frequency, and the estimate was taken
C11_Witness ==
  /\ F32ClockFailed /\ pc = "done" /\ arch = "sparc"
  /\ iters = 3 * SampleEvery
  /\ freq.max # UNKNOWN_DATA
  /\ peak_performance = MegaAsInt64(StaticMega)

\* the clock failed at the start, before any iteration
C11_WitnessAtStart ==
  /\ F32ClockFailed /\ pc = "select_peak_performance" /\ iters = 0

-----------------------------------------------------------------------------
\* Decimal-MHz field claim (checked under SpecFreq)

\* decimal texts of the "cpu MHz" field with the value each denotes, in
\* thousandths of a MHz
DecimalMHz ==
  {<<"616.54", 616540>>, <<"30", 30000>>, <<"99.49", 99490>>, <<"99.5", 99500>>,
   <<"100", 100000>>, <<"100.000", 100000>>, <<"10000.4", 10000400>>,
   <<"10000.5", 10000500>>, <<"10001", 10001000>>, <<"2500.", 2500000>>,
   <<"+1000.25", 1000250>>, <<"  250.000", 250000>>, <<"0", 0>>}

\* v rounded to the nearest integer, v in thousandths
NearestMHz(v) == (v + 500) \div 1000

\* PA-RISC, no sysfs value: the field of /proc/cpuinfo decides
PariscFieldDecides == FreqDone /\ arch = "parisc" /\ max_file = UNKNOWN_DATA

\* C12: a decimal "cpu MHz" field of value v gives v rounded to the nearest
\* integer MHz when that lies in the band 100..10000 and UNKNOWN otherwise,
\* and the frequency is never marked as measured
C12_DecimalMHzRounded ==
  (FreqDone /\ arch = "parisc")
    => /\ freq.measured = FALSE
       /\ \A d \in DecimalMHz :
            (max_file = UNKNOWN_DATA /\ hz_field = Field(d[1]))
              => freq.max = IF NearestMHz(d[2]) >= 100 /\ NearestMHz(d[2]) <= 10000
                            THEN NearestMHz(d[2])
                            ELSE UNKNOWN_DATA

\* scenario C: "616.54" gives 617 MHz, not measured
C12_Witness ==
  /\ PariscFieldDecides /\ hz_field = Field("616.54")
  /\ freq.max = 617 /\ freq.measured = FALSE

\* scenario D: "30" gives UNKNOWN
C12_WitnessBelowBand ==
  /\ PariscFieldDecides /\ hz_field = Field("30") /\ freq.max = UNKNOWN_DATA

-----------------------------------------------------------------------------
\* Throughput string claim (checked under SpecStr)

RECURSIVE AllDigits(_)
AllDigits(s) == Len(s) = 0 \/ (DigitValue(Head(s)) < 10 /\ AllDigits(Tail(s)))

\* digits, a point, two digits
IsTwoDecimals(s) ==
  /\ Len(s) >= 4
  /\ AllDigits(SubSeq(s, 1, Len(s) - 3))
  /\ SubSeq(s, Len(s) - 2, Len(s) - 2) = "."
  /\ AllDigits(SubSeq(s, Len(s) - 1, Len(s)))

\* N.NN, with a minus sign for a negative value
IsSignedTwoDecimals(s) ==
  IsTwoDecimals(IF Len(s) > 0 /\ Head(s) = "-" THEN Tail(s) ELSE s)

\* s is a text N.NN followed by the suffix
IsScaled(s, suffix) ==
  /\ Len(s) > Len(suffix)
  /\ SubSeq(s, Len(s) - Len(suffix) + 1, Len(s)) = suffix
  /\ IsTwoDecimals(SubSeq(s, 1, Len(s) - Len(suffix)))

\* s is a text N.NN (signed) followed by the suffix, or the first 16
\* characters of such a text: cut inside the suffix, or inside the number
IsScaledCut16(s, suffix) ==
  \/ /\ Len(s) <= 16
     /\ Len(s) > Len(suffix)
     /\ SubSeq(s, Len(s) - Len(suffix) + 1, Len(s)) = suffix
     /\ IsSignedTwoDecimals(SubSeq(s, 1, Len(s) - Len(suffix)))
  \/ /\ Len(s) = 16
     /\ \E n \in 1 .. Len(suffix) - 1 :
          /\ SubSeq(s, 17 - n, 16) = SubSeq(suffix, 1, n)
          /\ IsSignedTwoDecimals(SubSeq(s, 1, 16 - n))
  \/ /\ Len(s) = 16
     /\ \E d \in {"", "0", "00", ".00"} : IsSignedTwoDecimals(s \o d)

\* the largest unit whose threshold does not exceed x; the smallest unit when
\* none does
LargestUnit(x, smallest) ==
  IF AtLeastPow10(x, 12) THEN "T"
  ELSE IF AtLeastPow10(x, 9) THEN "G"
  ELSE IF AtLeastPow10(x, 6) THEN "M"
  ELSE IF AtLeastPow10(x, 3) THEN "K"
  ELSE smallest

FlopsUnit == IF LargestUnit(peak_performance, "M") = "K" THEN "M"
             ELSE LargestUnit(peak_performance, "M")

PeakReturned == pc = "returned_peak_performance"

OpsReturned == pc = "returned_ops"

\* C13 as stated: "Unknown" exactly for the sentinel -1; every other input
\* gives "N.NN <u>FLOP/s", u in {M, G, T}, respectively "N.NN <u>OPS", u in
\* {K, M, G, T}, u the largest unit whose threshold does not exceed the value
C13_Original ==
  /\ PeakReturned =>
       /\ string = STRING_UNKNOWN <=> peak_performance = Int64(-1)
       /\ peak_performance # Int64(-1) => IsScaled(string, " " \o FlopsUnit \o "FLOP/s")
  /\ OpsReturned =>
       /\ string = STRING_UNKNOWN <=> vis_ops_performance = Int64(-1)
       /\ vis_ops_performance # Int64(-1)
            => IsScaled(string, " " \o LargestUnit(vis_ops_performance, "K") \o "OPS")

\* C13, amended: "Unknown" exactly for the sentinel -1. Every other flops
\* value gives the first 16 characters of "N.NN <u>FLOP/s" (N.NN signed), u
\* being T from 10^12, G from 10^9 and M below that, also below 10^6. Every
\* other ops value of 1000 or more gives "N.NN <u>OPS" with u the largest of
\* K, M, G, T whose threshold does not exceed it, and every value below 1000
\* gives the integer itself, "N OPS"
C13_ThroughputStrings ==
  /\ PeakReturned =>
       /\ string = STRING_UNKNOWN <=> peak_performance = Int64(-1)
       /\ peak_performance # Int64(-1)
            => IsScaledCut16(string, " " \o FlopsUnit \o "FLOP/s")
  /\ OpsReturned =>
       /\ string = STRING_UNKNOWN <=> vis_ops_performance = Int64(-1)
       /\ (vis_ops_performance # Int64(-1) /\ AtLeastPow10(vis_ops_performance, 3))
            => IsScaled(string, " " \o LargestUnit(vis_ops_performance, "K") \o "OPS")
       /\ (vis_ops_performance # Int64(-1) /\ ~AtLeastPow10(vis_ops_performance, 3))
            => string = format_lld(vis_ops_performance) \o " OPS"

\* 999 operations per second are printed as an integer
C13_Witness ==
  /\ OpsReturned /\ vis_ops_performance = Int64(999) /\ string = "999 OPS"

\* 1.234 GFLOP/s
C13_WitnessScaled ==
  /\ PeakReturned /\ peak_performance = Int64(1234000000) /\ string = "1.23 GFLOP/s"

-----------------------------------------------------------------------------
\* Frequency string claim (checked under SpecStr)

FreqReturned == pc = "returned_freq"

\* the string with its "~" when the frequency is a measured one
Approximate(text) == IF freq.measured THEN "~" \o text ELSE text

\* C14: get_str_freq returns "Unknown" when max is the sentinel or negative,
\* "N.NNN GHz" when max >= 1000 and "N MHz" otherwise, and the string begins
\* with "~" if and only if measured is true
C14_FreqString ==
  FreqReturned =>
    /\ (Len(string) > 0 /\ Head(string) = "~") <=> freq.measured
    /\ string = Approximate(
         IF freq.max = UNKNOWN_DATA \/ freq.max < 0 THEN STRING_UNKNOWN
         ELSE IF freq.max >= 1000
              THEN ToString(freq.max \div 1000) \o "." \o PadDigits(freq.max % 1000, 3)
                     \o " GHz"
         ELSE ToString(freq.max) \o " MHz")

-----------------------------------------------------------------------------
\* Topology string claim (checked under SpecTopoStr)

TopoReturned == pc = "returned_topology"

\* the count multiplied by sockets when the dual_socket flag is set
Shown(count) == IF dual_socket THEN count * topo.sockets ELSE count

\* logical cores per physical core
SmtRatio == topo.logical_cores \div topo.physical_cores

\* C15: get_str_topology returns "N cores (M threads)" exactly when the SMT
\* ratio is greater than 1 and "N cores" otherwise, N and M being the
\* per-socket physical and logical core counts, each multiplied by sockets
\* when dual_socket is set
C15_TopologyString ==
  TopoReturned =>
    string = IF SmtRatio > 1
             THEN ToString(Shown(topo.physical_cores)) \o " cores ("
                    \o ToString(Shown(topo.logical_cores)) \o " threads)"
             ELSE ToString(Shown(topo.physical_cores)) \o " cores"

\* the same with the smt_supported field in place of the ratio
TopologyStringBySmtField ==
  TopoReturned =>
    string = IF topo.smt_supported > 1
             THEN ToString(Shown(topo.physical_cores)) \o " cores ("
                    \o ToString(Shown(topo.logical_cores)) \o " threads)"
             ELSE ToString(Shown(topo.physical_cores)) \o " cores"

-----------------------------------------------------------------------------
\* Microarchitecture name claim (checked under SpecUarch)

UarchDone == pc = "get_cache_info"

\* every name field of the backend is absent or empty
NoNameSupplied ==
  \A k \in NameKeys(arch) : ~cpuinfo[k].present \/ cpuinfo[k].text = ""

\* C16: for every combination of present, absent or empty name fields the
\* microarchitecture name is non-null and non-empty, and it is "Unknown" when
\* no source supplies a name
C16_UarchNameNeverBlank ==
  UarchDone
    => /\ uarch.name.present
       /\ uarch.name.text # ""
       /\ NoNameSupplied => uarch.name.text = STRING_UNKNOWN

-----------------------------------------------------------------------------
\* Pair-count claim (checked under SpecTopo)

\* the (package_id, core_id) combinations of the N entries the pair loop reads
IdPairs ==
  {<<package_ids[i], core_ids[i]>> : i \in 0 .. topo.total_cores - 1}

\* C17: on SPARC and PA-RISC unique_pairs is the number of distinct
\* (package_id, core_id) combinations over all N entries, and physical_cores
\* is unique_pairs integer-divided by sockets, clamped to >= 1
C17_UniquePairs ==
  (TopoDone /\ ReadsIds)
    => /\ unique_pairs = Cardinality(IdPairs)
       /\ topo.physical_cores
            = (IF unique_pairs \div topo.sockets >= 1
               THEN unique_pairs \div topo.sockets ELSE 1)

\* three entries: (0,1) twice, counted once, and (1,0), which a key that
\* mixed the two ids would take for (0,1)
C17_Witness ==
  /\ TopoDone /\ arch = "sparc" /\ package_ids_ok /\ core_ids_ok
  /\ topo.total_cores = 3
  /\ IdPairs = {<<0, 1>>, <<1, 0>>}
  /\ unique_pairs = 2
  /\ topo.sockets = 2 /\ topo.physical_cores = 1

\* a negative core id next to a non-negative one on the same package, and the
\* clamp acting on PA-RISC
C17_WitnessNegativeCore ==
  /\ TopoDone /\ arch = "parisc"
  /\ <<0, -1>> \in IdPairs /\ <<0, 0>> \in IdPairs
  /\ unique_pairs = 2

-----------------------------------------------------------------------------
\* Fallback claims (checked under SpecTopo)

\* what the SPARC reconstructor returns on the processor count and the id
\* files this run has read (when the package ids fail it overwrites both
\* arrays or fills them from the files, so the allocated content is immaterial)
SparcOnSameReads ==
  get_topology_info_sparc(online, core_ids, core_reads,
                          package_ids, package_reads).topo

\* C18: when package-id retrieval fails, the SPARC and the PA-RISC
\* reconstructors produce, for the same N and the same core ids, the same
\* sockets, physical_cores and logical_cores
C18_FallbackSameRule ==
  (TopoDone /\ arch = "parisc" /\ ~package_ids_ok)
    => /\ topo.sockets = SparcOnSameReads.sockets
       /\ topo.physical_cores = SparcOnSameReads.physical_cores
       /\ topo.logical_cores = SparcOnSameReads.logical_cores

\* a package id read from the OS is negative or at or above N
PackageIdOutOfRange ==
  \E i \in DOMAIN package_reads :
    package_reads[i].val < 0 \/ package_reads[i].val >= topo.total_cores

\* C19: when every package id is read and one of them is negative or >= N,
\* fill_package_ids_from_sys reports failure, the socket count is the
\* fallback one (N on SPARC; what get_num_sockets_package_cpus answers, or 1,
\* on PA-RISC) and get_topology_info completes with a usable topology
C19_OutOfRangeFallsBack ==
  (TopoDone /\ ReadsIds /\ AllPackageRead /\ PackageIdOutOfRange)
    => /\ ~package_ids_ok
       /\ arch = "sparc" => topo.sockets = topo.total_cores
       /\ arch = "parisc" =>
            \E ns \in NumSocketsPackageCpus(topo.total_cores) :
              topo.sockets = (IF ns = UNKNOWN_DATA \/ ns <= 0 THEN 1 ELSE ns)
       /\ topo.physical_cores >= 1
       /\ topo.logical_cores >= 1

\* three package ids read, all equal to N = 3: not one socket, the fallback
C19_Witness ==
  /\ TopoDone /\ arch = "sparc" /\ AllPackageRead
  /\ topo.total_cores = 3
  /\ PackageRecordIds = {3}
  /\ ~package_ids_ok
  /\ topo.sockets = 3

\* a negative id below -1 cannot be drawn from the files explored; -1 is the
\* negative id, here on PA-RISC next to an id in range
C19_WitnessNegative ==
  /\ TopoDone /\ arch = "parisc" /\ AllPackageRead
  /\ PackageRecordIds = {-1, 0}
  /\ ~package_ids_ok
  /\ topo.sockets = 1

-----------------------------------------------------------------------------
\* Source-chain claim (checked under SpecFreq)

\* the sanity band of the resolver, in MHz
InBand(mhz) == mhz >= 100 /\ mhz <= 10000

\* the candidate the /proc/cpuinfo field of this backend yields
CpuinfoCandidate ==
  IF arch = "sparc" THEN get_frequency_from_cpuinfo_sparc(hz_field)
  ELSE IF arch = "parisc" THEN get_frequency_from_cpuinfo_parisc(hz_field)
  ELSE get_frequency_from_cpuinfo_alpha(hz_field, hz_field_plain)

\* C20: freq.max is the first candidate, in the order scaling-driver value,
\* cpuinfo field, that passes validation (parsed, non-zero, within the band);
\* a candidate that fails is discarded and the next source consulted; when none
\* passes the result is UNKNOWN
C20_SourceChain ==
  FreqDone
    => freq.max = (IF max_file # UNKNOWN_DATA /\ InBand(max_file) THEN max_file
                   ELSE IF CpuinfoCandidate # UNKNOWN_DATA /\ InBand(CpuinfoCandidate)
                        THEN CpuinfoCandidate
                   ELSE UNKNOWN_DATA)

-----------------------------------------------------------------------------
\* Cache-level count claim (checked under SpecCache)

ExistingLevels == {l \in CacheLevels : cach.cach_arr[l].exists}

\* C21: after get_cache_info, max_cache_level equals the number of levels
\* among L1i, L1d, L2, L3 that exist, for every combination of existing and
\* non-existing levels
C21_MaxLevelCountsExisting ==
  CacheDone => cach.max_cache_level = Cardinality(ExistingLevels)

-----------------------------------------------------------------------------
\* Instance-count claim (checked under SpecCacheTopo)

\* C22: on SPARC an existing private level (L1i, L1d, L2) has num_caches equal
\* to the machine's number of physical cores, physical_cores * sockets of the
\* reconstructed topology, and an existing L3 on a multi-socket system has
\* num_caches equal to the number of sockets
C22_SparcInstanceCounts ==
  (TopoDone /\ arch = "sparc")
    => /\ \A l \in {L1i, L1d, L2} :
            cach.cach_arr[l].exists
              => cach.cach_arr[l].num_caches = topo.physical_cores * topo.sockets
       /\ (cach.cach_arr[L3].exists /\ topo.sockets > 1)
            => cach.cach_arr[L3].num_caches = topo.sockets

-----------------------------------------------------------------------------
\* Kernel termination claim (checked under SpecPerfLive)

KernelRunning == pc \in {"f32_kernel", "int_kernel"}

\* the target of the kernel the latest sample belongs to
SampledTarget ==
  IF pc = "int_kernel" \/ (pc = "done" /\ arch # "sparc")
  THEN Seconds(2000) ELSE target_seconds

\* the latest sample ends the kernel: the clock failed or the target is reached
SampleEnds ==
  ~sample.ok \/ reached_target(sample.elapsed_ms, SampledTarget)

\* the clock is read only after a multiple of 1024 iterations
SampledAtMultiples == iters % SampleEvery = 0

\* a kernel still in its loop has seen no sample that ends it, and a kernel
\* that has returned after a sample returned at a sample that ends it
StopsAtFirstEndingSample ==
  sample # NoSample => (KernelRunning <=> ~SampleEnds)

\* C23: a started kernel reads the clock only after multiples of 1024
\* iterations, returns at the first sample where the clock fails or the
\* elapsed time has reached the target and does not iterate past it, and,
\* the clock advancing, always terminates
C23_KernelTerminates ==
  /\ [](SampledAtMultiples /\ StopsAtFirstEndingSample)
  /\ <>(pc = "done")

\* the first sample is short of the target, the second one reaches it
C23_Witness ==
  /\ pc = "select_peak_performance"
  /\ iters = 2 * SampleEvery
  /\ sample.ok /\ reached_target(sample.elapsed_ms, target_seconds)
  /\ Int64Positive(measured)

-----------------------------------------------------------------------------
\* Kernel return-value claim (checked under SpecPerf)

\* measure_peak_performance_f32 has returned
F32Returned == pc \in {"select_peak_performance", "measure_int_ops_throughput",
                       "int_kernel", "done"}

\* measure_int_ops_throughput has returned
IntReturned == pc = "done" /\ arch # "sparc"

UnknownOrPositive(x) == x = Int64(-1) \/ Int64Positive(x)

\* C24: every value returned by the floating-point kernel or the integer
\* kernel is the UNKNOWN sentinel or strictly positive, and it is UNKNOWN
\* whenever the clock failed
C24_KernelReturnsUnknownOrPositive ==
  /\ F32Returned
       => /\ UnknownOrPositive(measured)
          /\ F32ClockFailed => measured = Int64(-1)
  /\ IntReturned
       => /\ UnknownOrPositive(vis_ops_performance)
          /\ (sample # NoSample /\ ~sample.ok) => vis_ops_performance = Int64(-1)

-----------------------------------------------------------------------------
\* Integer-kernel protocol claim (checked under SpecPerf)

\* the integer kernel has taken a sample
IntSampled == (pc = "int_kernel" \/ IntReturned) /\ sample # NoSample

\* C25: the integer kernel runs if and only if its own toggle is enabled,
\* whatever the floating-point toggle, and it samples the clock every 1024
\* iterations and runs to the target duration of the floating-point kernel,
\* a configured duration override included
C25_IntKernelSameProtocol ==
  /\ (pc = "int_kernel" \/ IntSampled) => env.accurate_pp_with_ops
  /\ (IntReturned /\ ~env.accurate_pp_with_ops)
       => vis_ops_performance = Int64(-1) /\ sample = NoSample
  /\ IntSampled
       => /\ iters % SampleEvery = 0
          /\ sample.ok
               => (IntReturned
                     <=> reached_target(sample.elapsed_ms, f32_target_seconds(arch, env)))

-----------------------------------------------------------------------------
\* Read-order claim (checked under SpecFill)

\* the indices read for one id file, in the order of the reads
RECURSIVE IndicesRead(_, _)
IndicesRead(log, file) ==
  IF log = <<>> THEN <<>>
  ELSE IF Head(log).file = file
       THEN <<Head(log).cpu>> \o IndicesRead(Tail(log), file)
       ELSE IndicesRead(Tail(log), file)

\* the reads of one file are 0, 1, .., at most N of them, none after a failure
InOrderUntilFailure(file, reads) ==
  LET idx == IndicesRead(read_log, file)
  IN  /\ Len(idx) <= topo.total_cores
      /\ \A j \in 1 .. Len(idx) : idx[j] = j - 1
      /\ \A j \in 1 .. Len(idx) : ~reads[idx[j]].ok => j = Len(idx)

\* C26: the reads for one id array are issued in increasing index order
\* 0, 1, .., at most N per array, and stop at the first failed read; the
\* core-id array is processed completely before the first package-id read
C26_ReadsInOrder ==
  /\ InOrderUntilFailure("core_id", core_reads)
  /\ InOrderUntilFailure("physical_package_id", package_reads)
  /\ \A j, k \in 1 .. Len(read_log) :
       (j < k /\ read_log[j].file = "physical_package_id")
         => read_log[k].file = "physical_package_id"
  /\ IndicesRead(read_log, "physical_package_id") # <<>>
       => LET idx == IndicesRead(read_log, "core_id")
          IN  \/ Len(idx) = topo.total_cores
              \/ (Len(idx) > 0 /\ ~core_reads[idx[Len(idx)]].ok)

\* three processors: the second core_id file fails, so does the second
\* physical_package_id file
C26_Witness ==
  /\ TopoDone /\ topo.total_cores = 3
  /\ read_log = <<ReadOf("core_id", 0), ReadOf("core_id", 1),
                  ReadOf("physical_package_id", 0), ReadOf("physical_package_id", 1)>>
  /\ ~core_reads[1].ok /\ ~package_reads[1].ok

-----------------------------------------------------------------------------
\* Array-bounds claim (checked under SpecTopo)

\* the indices package_ids_count[] is subscripted with: the loop index i and,
\* in the counting branch, which is entered when the fill succeeds,
\* package_ids[i]
CountIndices ==
  (0 .. topo.total_cores - 1)
    \cup (IF package_ids_ok THEN {package_ids[i] : i \in 0 .. topo.total_cores - 1}
          ELSE {})

\* C27: on SPARC and PA-RISC, for every N >= 1 and every outcome of the id
\* reads, each index used on package_ids_count lies in [0, N) and each write
\* to seen_pairs is at an index below N (unique_pairs never exceeds N)
C27_IndicesInBounds ==
  (TopoDone /\ ReadsIds /\ topo.total_cores >= 1)
    => /\ CountIndices \subseteq 0 .. topo.total_cores - 1
       /\ unique_pairs <= topo.total_cores

\* every id read, all in range, the largest one N - 1, and N distinct pairs
C27_Witness ==
  /\ TopoDone /\ arch = "sparc" /\ package_ids_ok
  /\ topo.total_cores = MaxN
  /\ MaxN - 1 \in CountIndices
  /\ package_ids[0] = MaxN - 1
  /\ unique_pairs = MaxN

-----------------------------------------------------------------------------
\* Determinism claim (checked under SpecTopo)

\* the PA-RISC reconstructor run again on the same processor count, the same
\* file reads and the same fallback socket count, the package_ids array
\* holding mem when it is allocated
PariscOnLeftover(mem) ==
  get_topology_info_parisc(online, core_ids, core_reads, mem, package_reads,
                           topo.sockets).topo

\* C28: on PA-RISC, when package-id retrieval fails, physical_cores,
\* logical_cores and smt_supported do not depend on the contents left in the
\* package_ids array: a run that differs only in those contents gives the
\* same values
C28_PariscIgnoresLeftover ==
  (TopoDone /\ arch = "parisc" /\ ~package_ids_ok)
    => \A mem \in [0 .. topo.total_cores - 1 -> LeftoverVals] :
         /\ PariscOnLeftover(mem).physical_cores = topo.physical_cores
         /\ PariscOnLeftover(mem).logical_cores = topo.logical_cores
         /\ PariscOnLeftover(mem).smt_supported = topo.smt_supported

-----------------------------------------------------------------------------
\* Cache total claim (checked under SpecStr)

\* C29: in get_str_cache_two the total that is formatted equals the
\* mathematical product cache_size * instance_count, with no 32-bit
\* wraparound, for every cache_size in [1, 2^31) and instance_count in [2, 255]
C29_TotalWithoutWraparound ==
  (StrDone /\ cache_size >= 1 /\ num_caches >= 2 /\ num_caches <= 255)
    => /\ TimesUint32(Uint32(cache_size), num_caches)
            = TimesExact(Uint32(cache_size), num_caches)
       /\ string = get_value_as_smallest_unit(Uint32(cache_size)).str \o " ("
                     \o get_value_as_smallest_unit(
                          TimesExact(Uint32(cache_size), num_caches)).str
                     \o " Total)"

-----------------------------------------------------------------------------
\* Frequency buffer claim (checked under SpecStr)

\* the text get_str_freq formats before snprintf cuts it to the buffer
FreqTextUncut ==
  (IF freq.measured THEN "~" ELSE "")
    \o (IF freq.max >= 1000 THEN format_3f_ghz(freq.max) \o " GHz"
        ELSE ToString(freq.max) \o " MHz")

\* C30: for every max frequency in [0, 10000] MHz and either value of the
\* measured flag, the text produced by get_str_freq fits in its buffer with
\* the terminator, so the returned string is not truncated
C30_FreqTextFits ==
  (FreqReturned /\ freq.max >= 0 /\ freq.max <= 10000)
    => /\ Len(FreqTextUncut) + 1 <= STR_FREQ_SIZE
       /\ string = FreqTextUncut

====
